---- MODULE Spec2Model ----
(***************************************************************************)
(* Script-call gate, object-handle registry and item binding surface of    *)
(* the game server core: CreatureCallback::startScriptInterface, the       *)
(* ScriptEnvironment handle map, and the ItemFunctions Lua bindings.       *)
(***************************************************************************)
EXTENDS Integers, Sequences, FiniteSets, TLC

----------------------------------------------------------------------------
(* Bounds of the model *)

\* configured maximum script nesting depth
MaxScriptEnv == 2
\* size of the pool of item instances that can ever be created
MaxItems == 3
\* largest stack count used (also the stack size of the stackable type)
MaxCount == 2
\* number of handles the registry may allocate in one run
MaxHandles == 2
\* number of Lua userdata values a script keeps
NumUd == 2
\* number of calls made in one run of a top-level script
MaxCalls == 5
\* number of calls made in one run of nested script calls
MaxGateCalls == 6
\* greatest time the game scheduler reaches in one run
MaxTime == 2
\* creatures of the world, the monster itself included
MaxCreatures == 4
\* number of spawn records one run adds to the map
MaxSpawns == 2
\* number of parameters a creature callback pushes in one run
MaxParams == 3

----------------------------------------------------------------------------
(* Values *)

NoItem == 0
ItemIds == 1 .. MaxItems
UdSlots == 1 .. NumUd
\* item ids of the item-type table: 1 is a stackable type, 2 is a
\* non-stackable type of another kind (a transform between them replaces
\* the instance)
ItemTypeIds == {1, 2}
\* parents: "null" = no parent (removed / released), "virtual" = the
\* VirtualCylinder sentinel, "c1"/"c2" = real containers or tiles
RealCylinders == {"c1", "c2"}
Parents == {"null", "virtual"} \cup RealCylinders
\* largest value of the 16-bit unique-id space; allocated handles are above
LastUidInit == 65535
\* script ids a callback can be started with (-1 = no script registered)
ScriptIds == {-1, 1, 2}
\* runtime variants of the callback's target creature; "expired" is a
\* weak pointer that no longer locks
CreatureVariants == {"Npc", "Monster", "Player"}
Targets == CreatureVariants \cup {"expired"}
\* attribute keys (ItemAttribute_t) and the values used for them
AttrKeys == {"UNIQUEID", "ACTIONID", "DURATION_TIMESTAMP", "TEXT", "NONE"}
ProtectedKeys == {"UNIQUEID", "DURATION_TIMESTAMP"}
AttrVals == {1, 2}

EmptyMap == [h \in {} |-> NoItem]
MapPut(m, k, v) == [x \in (DOMAIN m) \cup {k} |-> IF x = k THEN v ELSE m[x]]
MapDel(m, k) == [x \in (DOMAIN m) \ {k} |-> m[x]]
Min(a, b) == IF a < b THEN a ELSE b
\* getNumber<uint16_t> and static_cast<uint8_t>
ToUint16(x) == x % 65536
ToUint8(x) == x % 256

\* retired is an observation: the <<handle, original>> pairs whose original
\* a transform of this environment removed
EmptyEnv == [scriptId |-> 0, localMap |-> EmptyMap, tempItems |-> {},
             retired |-> {}]
\* no custom attribute
EmptyCustom == [k \in {} |-> [kind |-> "Int64", n |-> 0, s |-> "", b |-> FALSE]]
\* a monster that was never given a forge stack: no forge icon
NoIcon == [kind |-> "none", badge |-> 0]
NoMonster == [forgeStack |-> 0, classification |-> 0, icon |-> NoIcon]

NoLast == [op |-> "none", item |-> NoItem, uid |-> 0, res |-> NoItem,
           out |-> "none", aux |-> 0, env |-> 0, rel |-> {}, kept |-> {},
           target |-> "none", log |-> << >>, args |-> << >>]

----------------------------------------------------------------------------
VARIABLES
    depth,      \* number of reserved script environments (nesting depth)
    scriptEnv,  \* scriptEnv[d]: the environment at nesting level d
    lastUID,    \* last handle allocated by the registry
    luaStack,   \* script functions pushed on the Lua stack, innermost last
    faulted,    \* the process dereferenced a null pointer and stopped
    items,      \* items[i]: id, count and parent of item instance i
    nItems,     \* number of item instances created so far
    ud,         \* ud[u]: the item held by userdata u of the running script
    attrs,      \* attrs[i]: the typed attributes set on item i
    last,       \* record of the last call and its result (observation only)
    calls,      \* number of calls made so far
    decayMap,   \* decay engine: scheduled expiry of every registered item
    now,        \* time of the game scheduler, in ticks
    itemTypes,  \* item-type table: decay template of every item id
    tileFlags,  \* tileFlags[i]: attributes the tile flags of i were computed from
    customAttributes, \* customAttributes[i]: custom attribute map of item i
    monster,    \* forge state and icon of the monster a script works on
    hazard,     \* the monster's four hazard-system flags
    friendList, \* creatures the monster will not attack
    targetList, \* the monster's targets, primary target first
    monsterInfo, \* the monster's type and what setType copies from it
    distanceUntil, \* <<t>>: the target-distance override ends at time t
    position,   \* tile the monster stands on
    masterPos,  \* the monster's spawn position
    spawnsMonster, \* spawn records of the map, oldest first
    params,     \* parameters counted by the creature callback
    pushed      \* userdata the creature callback pushed, with their metatable

gateVars == <<depth, scriptEnv, lastUID, luaStack, faulted>>
itemVars == <<items, nItems, ud, attrs>>
monVars == <<hazard, friendList, targetList, monsterInfo, distanceUntil,
             position, masterPos, spawnsMonster, params, pushed>>
extVars == <<decayMap, now, itemTypes, tileFlags, customAttributes, monster,
             monVars>>
vars == <<gateVars, itemVars, last, calls, extVars>>

Last(op, item, uid, res, out, aux) ==
    [op |-> op, item |-> item, uid |-> uid, res |-> res, out |-> out,
     aux |-> aux, env |-> depth, rel |-> {}, kept |-> {},
     target |-> "none", log |-> << >>, args |-> << >>]

----------------------------------------------------------------------------
(* Script-call gate *)

\* LuaScriptInterface::reserveScriptEnv: a slot is available below the
\* configured maximum
reserveScriptEnv == depth < MaxScriptEnv

getCreatureClass(creature) ==
    IF creature = "expired" THEN ""
    ELSE IF creature = "Npc" THEN "Npc"
    ELSE IF creature = "Monster" THEN "Monster"
    ELSE IF creature = "Player" THEN "Player"
    ELSE ""

\* the result of a startScriptInterface call: return value and error line
StartResult(scriptId, target, ret, log) ==
    [Last("enter", NoItem, scriptId, NoItem, ret, 0)
        EXCEPT !.target = target, !.log = log]

\* scriptId == -1: return false before anything is touched
StartNoScript(scriptId, target) ==
    /\ scriptId = -1
    /\ last' = StartResult(scriptId, target, "false", << >>)
    /\ UNCHANGED <<depth, scriptEnv, lastUID, luaStack, faulted>>

\* reserveScriptEnv failed: lock the weak target, log class and name,
\* return false.  targetCreature->getName() on an expired target is a call
\* through a null pointer: the build either stops there or carries on with
\* whatever it read.
StartOverflow(scriptId, target) ==
    /\ scriptId # -1
    /\ ~reserveScriptEnv
    /\ IF target = "expired"
       THEN \/ /\ faulted' = TRUE
               /\ last' = StartResult(scriptId, target, "fault", << >>)
            \/ /\ faulted' = faulted
               /\ last' = StartResult(scriptId, target, "false",
                                      <<getCreatureClass(target), "garbage">>)
       ELSE /\ faulted' = faulted
            /\ last' = StartResult(scriptId, target, "false",
                                   <<getCreatureClass(target), target>>)
    /\ UNCHANGED <<depth, scriptEnv, lastUID, luaStack>>

\* a slot was reserved: set the script id on it, push the function
StartReserved(scriptId, target) ==
    /\ scriptId # -1
    /\ reserveScriptEnv
    /\ depth' = depth + 1
    /\ scriptEnv' = [scriptEnv EXCEPT ![depth + 1] =
                        [EmptyEnv EXCEPT !.scriptId = scriptId]]
    /\ luaStack' = Append(luaStack, scriptId)
    /\ last' = StartResult(scriptId, target, "true", << >>)
    /\ UNCHANGED <<lastUID, faulted>>

startScriptInterface(scriptId, target) ==
    /\ ~faulted
    /\ \/ StartNoScript(scriptId, target)
       \/ StartOverflow(scriptId, target)
       \/ StartReserved(scriptId, target)
    /\ UNCHANGED itemVars
    /\ UNCHANGED extVars

----------------------------------------------------------------------------
(* Items and the world *)

IsStackable(id) == id = 1
SameKind(a, b) == a = b
isRemoved(its, i) == its[i].parent = "null"
getItemCount(its, i) == its[i].count
getSubType(its, i) == its[i].count
NoAttrs == [k \in {} |-> 0]
UnbornItem == [id |-> 1, count |-> 0, parent |-> "null"]

\* Item::clone: a new instance with the same id, count and attributes and
\* no parent yet
cloneItem(its, n, i) ==
    [its EXCEPT ![n + 1] = [id |-> its[i].id, count |-> its[i].count,
                            parent |-> "null"]]

\* Game::transformItem(item, newId, newCount): result item and new world
transformItem(its, n, i, newId, newCount) ==
    IF its[i].parent = "null"
    THEN [items |-> its, nItems |-> n, ret |-> NoItem]
    ELSE IF its[i].id = newId
            /\ (newCount = -1 \/ (newCount = getSubType(its, i) /\ newCount # 0))
    THEN [items |-> its, nItems |-> n, ret |-> i]
    ELSE IF SameKind(its[i].id, newId)
    THEN IF newCount = 0 /\ IsStackable(its[i].id)
         THEN [items |-> [its EXCEPT ![i].parent = "null"],
               nItems |-> n, ret |-> NoItem]
         ELSE [items |-> [its EXCEPT ![i].id = newId,
                                     ![i].count = IF newCount # -1 /\ IsStackable(newId)
                                                  THEN newCount ELSE its[i].count],
               nItems |-> n, ret |-> i]
    ELSE [items |-> [its EXCEPT ![n + 1] =
                        [id |-> newId,
                         count |-> IF IsStackable(newId) /\ newCount > 0
                                   THEN newCount ELSE 1,
                         parent |-> its[i].parent],
                     ![i].parent = "null"],
          nItems |-> n + 1, ret |-> n + 1]

\* transformItem needs a fresh instance (replacement of another kind)
TransformCreates(its, i, newId) ==
    its[i].parent # "null" /\ ~SameKind(its[i].id, newId)

----------------------------------------------------------------------------
(* Handle registry of the active script environment *)

ActiveEnv == scriptEnv[depth]

HandleOf(e, i) == CHOOSE h \in DOMAIN e.localMap : e.localMap[h] = i
HasHandle(e, i) == \E h \in DOMAIN e.localMap : e.localMap[h] = i

\* ScriptEnvironment::addThing: 0 for a removed thing, the handle the
\* environment already has for it, or a freshly allocated one
addThingUid(e, its, i, lu) ==
    IF isRemoved(its, i) THEN 0
    ELSE IF HasHandle(e, i) THEN HandleOf(e, i)
    ELSE lu + 1

addThingAllocates(e, its, i) == ~isRemoved(its, i) /\ ~HasHandle(e, i)

addThingMap(e, its, i, lu) ==
    IF addThingAllocates(e, its, i) THEN MapPut(e.localMap, lu + 1, i)
    ELSE e.localMap

addThingLast(e, its, i, lu) ==
    IF addThingAllocates(e, its, i) THEN lu + 1 ELSE lu

\* the registry may still allocate
CanAllocate == lastUID < LastUidInit + MaxHandles

\* ScriptEnvironment::removeItemByUID
removeItemByUID(m, uid) == MapDel(m, uid)

\* ScriptEnvironment::insertItem (rebind): uid now names newItem
insertItem(m, uid, newItem) == MapPut(m, uid, newItem)

\* ScriptEnvironment::getItemByUID
getItemByUID(e, uid) ==
    IF uid \in DOMAIN e.localMap THEN e.localMap[uid] ELSE NoItem

\* ScriptEnvironment::addTempItem
addTempItem(e, i) == [e EXCEPT !.tempItems = @ \cup {i}]

\* item:split that keeps uid although the original was removed
SplitRebindKeepsRemoved(m, its, orig, uid, newItem) ==
    IF newItem # NoItem /\ newItem # orig
    THEN insertItem(m, uid, newItem) ELSE m

\* the rebinding tail of item:split: drop uid when the original is
\* removed, map uid to a different live result
SplitRebind(m, its, orig, uid, newItem) ==
    LET m1 == IF isRemoved(its, orig) THEN removeItemByUID(m, uid) ELSE m
    IN  IF newItem # NoItem /\ newItem # orig
        THEN insertItem(m1, uid, newItem) ELSE m1

\* item:transform that drops uid but never maps it to the new instance
TransformRebindNoInsert(m, its, orig, uid, newItem) ==
    IF isRemoved(its, orig) THEN removeItemByUID(m, uid) ELSE m

\* the rebinding tail of item:transform
TransformRebind(m, its, orig, uid, newItem) ==
    LET m1 == IF isRemoved(its, orig) THEN removeItemByUID(m, uid) ELSE m
    IN  IF newItem # NoItem /\ newItem # orig
        THEN insertItem(m1, uid, newItem) ELSE m1

----------------------------------------------------------------------------
(* Item binding surface (ItemFunctions) *)

InScript == ~faulted /\ depth > 0

\* the engine hands a live world item to the running script (callback
\* parameter pushed as userdata)
pushUserdata(dst, i) ==
    /\ InScript
    /\ i <= nItems
    /\ items[i].parent \in RealCylinders
    /\ ud' = [ud EXCEPT ![dst] = i]
    /\ last' = Last("push", i, 0, i, "userdata", 0)
    /\ UNCHANGED <<gateVars, items, nItems, attrs>>
    /\ UNCHANGED extVars

\* Item(uid) that looks the handle up in every reserved environment
luaItemCreateResolveAnyEnv(uid) ==
    IF \E d \in 1 .. depth : uid \in DOMAIN scriptEnv[d].localMap
    THEN scriptEnv[CHOOSE d \in 1 .. depth :
                      uid \in DOMAIN scriptEnv[d].localMap].localMap[uid]
    ELSE NoItem

\* Item(uid)
luaItemCreateResolve(uid) == getItemByUID(ActiveEnv, uid)

luaItemCreate(uid, dst) ==
    /\ InScript
    /\ LET item == luaItemCreateResolve(uid)
       IN  /\ ud' = [ud EXCEPT ![dst] = item]
           /\ last' = Last("Item", NoItem, uid, item,
                           IF item # NoItem THEN "userdata" ELSE "nil", 0)
    /\ UNCHANGED <<gateVars, items, nItems, attrs>>
    /\ UNCHANGED extVars

\* item:clone() that forgets to register the clone as temporary
luaItemCloneEnvNoTemp(e, clone) == e

\* what item:clone() registers in the environment
luaItemCloneEnv(e, clone) == addTempItem(e, clone)

\* item:clone()
luaItemClone(u, dst) ==
    /\ InScript
    /\ LET i == ud[u]
       IN  IF i = NoItem
           THEN /\ last' = Last("clone", i, 0, NoItem, "nil", 0)
                /\ UNCHANGED <<gateVars, items, nItems, ud, attrs>>
           ELSE /\ nItems < MaxItems
                /\ LET c == nItems + 1
                   IN  /\ items' = [cloneItem(items, nItems, i)
                                       EXCEPT ![c].parent = "virtual"]
                       /\ nItems' = c
                       /\ attrs' = [attrs EXCEPT ![c] = attrs[i]]
                       /\ scriptEnv' = [scriptEnv EXCEPT ![depth] =
                                           luaItemCloneEnv(@, c)]
                       /\ ud' = [ud EXCEPT ![dst] = c]
                       /\ last' = Last("clone", i, 0, c, "userdata", 0)
                /\ UNCHANGED <<depth, lastUID, luaStack, faulted>>
    /\ UNCHANGED extVars

\* the split count taken as requested, not limited to the stack
luaItemSplitCountUnclamped(cnt, n) == ToUint16(cnt)

\* std::min<uint16_t>(getNumber<uint16_t>(L, 2, 1), item->getItemCount())
luaItemSplitCount(cnt, n) == Min(ToUint16(cnt), n)

\* item:split([count = 1])
luaItemSplit(u, cnt, dst) ==
    /\ InScript
    /\ LET i == ud[u]
       IN  IF i = NoItem
           THEN /\ last' = Last("split", i, 0, NoItem, "nil", 0)
                /\ UNCHANGED <<gateVars, items, nItems, ud, attrs>>
           ELSE IF ~IsStackable(items[i].id) \/ isRemoved(items, i)
           THEN /\ last' = Last("split", i, 0, NoItem, "nil", 0)
                /\ UNCHANGED <<gateVars, items, nItems, ud, attrs>>
           ELSE /\ nItems < MaxItems
                /\ addThingAllocates(ActiveEnv, items, i) => CanAllocate
                /\ LET count == luaItemSplitCount(cnt, getItemCount(items, i))
                       diff == ToUint16(getItemCount(items, i) - count)
                       s == nItems + 1
                       its1 == [cloneItem(items, nItems, i) EXCEPT ![s].count = count]
                       uid == addThingUid(ActiveEnv, items, i, lastUID)
                       m0 == addThingMap(ActiveEnv, items, i, lastUID)
                       t == transformItem(its1, s, i, items[i].id, diff)
                       m1 == SplitRebind(m0, t.items, i, uid, t.ret)
                   IN  /\ items' = [t.items EXCEPT ![s].parent = "virtual"]
                       /\ nItems' = t.nItems
                       /\ lastUID' = addThingLast(ActiveEnv, items, i, lastUID)
                       /\ scriptEnv' = [scriptEnv EXCEPT ![depth] =
                                           addTempItem([@ EXCEPT !.localMap = m1], s)]
                       /\ ud' = [[ud EXCEPT ![u] = t.ret] EXCEPT ![dst] = s]
                       /\ attrs' = [attrs EXCEPT ![s] = attrs[i]]
                       /\ last' = [Last("split", i, uid, t.ret, "userdata", s)
                                      EXCEPT !.args = <<cnt, getItemCount(items, i)>>]
                /\ UNCHANGED <<depth, luaStack, faulted>>
    /\ UNCHANGED extVars

\* item:transform(itemId[, count/subType = -1]); itemId 0 is a name that
\* resolves to no item type
luaItemTransform(u, itemId, subTypeArg) ==
    /\ InScript
    /\ LET i == ud[u]
       IN  IF i = NoItem \/ itemId = 0
           THEN /\ last' = Last("transform", i, 0, NoItem, "nil", 0)
                /\ UNCHANGED <<gateVars, items, nItems, ud, attrs>>
           ELSE IF items[i].id = itemId
                   /\ (subTypeArg = -1 \/ subTypeArg = getSubType(items, i))
           THEN /\ last' = Last("transform", i, 0, i, "true", 0)
                /\ UNCHANGED <<gateVars, items, nItems, ud, attrs>>
           ELSE /\ TransformCreates(items, i, itemId) => nItems < MaxItems
                /\ addThingAllocates(ActiveEnv, items, i) => CanAllocate
                /\ LET subType == IF IsStackable(itemId)
                                  THEN Min(subTypeArg, MaxCount) ELSE subTypeArg
                       uid == addThingUid(ActiveEnv, items, i, lastUID)
                       m0 == addThingMap(ActiveEnv, items, i, lastUID)
                       t == transformItem(items, nItems, i, itemId, subType)
                       m1 == TransformRebind(m0, t.items, i, uid, t.ret)
                   IN  /\ items' = t.items
                       /\ nItems' = t.nItems
                       /\ lastUID' = addThingLast(ActiveEnv, items, i, lastUID)
                       /\ scriptEnv' = [scriptEnv EXCEPT
                              ![depth].localMap = m1,
                              ![depth].retired =
                                  IF uid # 0 /\ isRemoved(t.items, i)
                                  THEN @ \cup {<<uid, i>>} ELSE @]
                       /\ ud' = [ud EXCEPT ![u] = t.ret]
                       /\ attrs' = attrs
                       /\ last' = [Last("transform", i, uid, t.ret, "true", 1)
                                      EXCEPT !.args = <<itemId, subTypeArg>>]
                /\ UNCHANGED <<depth, luaStack, faulted>>
    /\ UNCHANGED extVars

\* the stack in toCylinder that a moved stackable item merges into
MergeTargets(its, n, i, to) ==
    {t \in 1 .. n : /\ t # i
                    /\ its[t].parent = to
                    /\ its[t].id = its[i].id
                    /\ IsStackable(its[t].id)
                    /\ its[t].count + its[i].count <= MaxCount}

\* Game::internalMoveItem(from, to, item, count = all, &moveItem): the item
\* is merged into an existing stack (and removed) or placed in toCylinder
internalMoveItem(its, n, i, to) ==
    IF MergeTargets(its, n, i, to) # {}
    THEN LET t == CHOOSE x \in MergeTargets(its, n, i, to) :
                     \A y \in MergeTargets(its, n, i, to) : x <= y
         IN  [items |-> [its EXCEPT ![t].count = its[t].count + its[i].count,
                                    ![i].parent = "null"],
              moveItem |-> t]
    ELSE [items |-> [its EXCEPT ![i].parent = to], moveItem |-> i]

\* what item:moveTo does to the handle map of the environment
luaItemMoveToMap(m, its, orig, moveItem) == m

\* item:moveTo(position or cylinder[, flags]); to = "none" is a target that
\* resolves to no cylinder, ok is the ReturnValue of the engine call
luaItemMoveTo(u, to, ok) ==
    /\ InScript
    /\ LET i == ud[u]
       IN  IF i = NoItem
           THEN /\ last' = Last("moveTo", i, 0, NoItem, "nil", 0)
                /\ UNCHANGED <<gateVars, items, nItems, ud, attrs>>
           ELSE IF isRemoved(items, i) \/ to = "none"
           THEN /\ last' = Last("moveTo", i, 0, NoItem, "nil", 0)
                /\ UNCHANGED <<gateVars, items, nItems, ud, attrs>>
           ELSE IF items[i].parent = to
           THEN /\ last' = Last("moveTo", i, 0, i, "true", 0)
                /\ UNCHANGED <<gateVars, items, nItems, ud, attrs>>
           ELSE IF ~ok
           THEN /\ last' = Last("moveTo", i, 0, NoItem, "false", 0)
                /\ UNCHANGED <<gateVars, items, nItems, ud, attrs>>
           ELSE IF items[i].parent = "virtual"
           THEN /\ items' = [items EXCEPT ![i].parent = to]
                /\ last' = Last("moveTo", i, 0, i, "true", 1)
                /\ UNCHANGED <<gateVars, nItems, ud, attrs>>
           ELSE LET r == internalMoveItem(items, nItems, i, to)
                IN  /\ items' = r.items
                    /\ ud' = [ud EXCEPT ![u] = r.moveItem]
                    /\ scriptEnv' = [scriptEnv EXCEPT ![depth].localMap =
                                        luaItemMoveToMap(@, r.items, i, r.moveItem)]
                    /\ last' = Last("moveTo", i, 0, r.moveItem, "true", 2)
                    /\ UNCHANGED <<depth, lastUID, luaStack, faulted,
                                   nItems, attrs>>
    /\ UNCHANGED extVars

\* Game::internalRemoveItem(item, count)
internalRemoveItem(its, i, count) ==
    IF IsStackable(its[i].id) /\ count # -1 /\ count # its[i].count
    THEN [its EXCEPT ![i].count = IF its[i].count - count > 0
                                  THEN its[i].count - count ELSE 0]
    ELSE [its EXCEPT ![i].parent = "null"]

\* item:remove([count = -1])
luaItemRemove(u, count) ==
    /\ InScript
    /\ LET i == ud[u]
       IN  IF i = NoItem
           THEN /\ last' = Last("remove", i, 0, NoItem, "nil", 0)
                /\ UNCHANGED items
           ELSE IF isRemoved(items, i)
           THEN /\ last' = Last("remove", i, 0, NoItem, "false", 0)
                /\ UNCHANGED items
           ELSE /\ items' = internalRemoveItem(items, i, count)
                /\ last' = Last("remove", i, 0, i, "true", 0)
    /\ UNCHANGED <<gateVars, nItems, ud, attrs>>
    /\ UNCHANGED extVars

\* item->getAttribute<T>(key): 0 when the attribute is not set
getAttribute(a, key) == IF key \in DOMAIN a THEN a[key] ELSE 0

\* item:getUniqueId()
luaItemGetUniqueIdValue(e, its, a, i, lu) ==
    LET uniqueId == getAttribute(a, "UNIQUEID") % 65536
    IN  IF uniqueId = 0 THEN addThingUid(e, its, i, lu) ELSE uniqueId

luaItemGetUniqueId(u) ==
    /\ InScript
    /\ LET i == ud[u]
       IN  IF i = NoItem
           THEN /\ last' = Last("getUniqueId", i, 0, NoItem, "nil", 0)
                /\ UNCHANGED <<scriptEnv, lastUID>>
           ELSE IF getAttribute(attrs[i], "UNIQUEID") % 65536 # 0
           THEN /\ last' = Last("getUniqueId", i,
                                luaItemGetUniqueIdValue(ActiveEnv, items, attrs[i], i, lastUID),
                                i, "number", 0)
                /\ UNCHANGED <<scriptEnv, lastUID>>
           ELSE /\ addThingAllocates(ActiveEnv, items, i) => CanAllocate
                /\ scriptEnv' = [scriptEnv EXCEPT ![depth].localMap =
                                    addThingMap(ActiveEnv, items, i, lastUID)]
                /\ lastUID' = addThingLast(ActiveEnv, items, i, lastUID)
                /\ last' = Last("getUniqueId", i,
                                luaItemGetUniqueIdValue(ActiveEnv, items, attrs[i], i, lastUID),
                                i, "number",
                                IF addThingAllocates(ActiveEnv, items, i) THEN 1 ELSE 0)
    /\ UNCHANGED <<depth, luaStack, faulted, items, nItems, ud, attrs>>
    /\ UNCHANGED extVars

----------------------------------------------------------------------------
(* Typed attributes *)

\* keys coupled to the decay engine
DecayKeys == {"DECAYSTATE", "DURATION"}
isAttributeInteger(key) ==
    key \in {"UNIQUEID", "ACTIONID", "DURATION_TIMESTAMP"} \cup DecayKeys
isAttributeString(key) == key = "TEXT"

\* ItemDecayState_t; the engine's Stopped state is DECAYING_STOPPED
DECAYING_FALSE == 0
DECAYING_TRUE == 1
DECAYING_PENDING == 2
DECAYING_STOPPING == 3
DECAYING_STOPPED == 4
DecayStates == DECAYING_FALSE .. DECAYING_STOPPED
\* durations a script passes (int32_t)
DurationVals == {-1, 0, 1, 2}

\* what a call on item i works on: its attributes, the engine's schedule,
\* the attributes its tile flags were computed from, and the calls made to
\* the item and its collaborators so far
AttrState(i) ==
    [attrs |-> attrs[i], map |-> decayMap, flags |-> tileFlags[i], log |-> << >>]

getDecaying(a) == IF "DECAYSTATE" \in DOMAIN a THEN a["DECAYSTATE"] ELSE DECAYING_FALSE
\* Item::setAttribute(key, value)
setAttribute(st, key, value) ==
    [st EXCEPT !.attrs = MapPut(@, key, value), !.log = Append(@, "setAttribute")]
\* Item::setDecaying(state)
setDecaying(st, state) ==
    [st EXCEPT !.attrs = MapPut(@, "DECAYSTATE", state),
               !.log = Append(@, "setDecaying")]
\* Item::setDuration(time)
setDuration(st, time) ==
    [st EXCEPT !.attrs = MapPut(@, "DURATION", time),
               !.log = Append(@, "setDuration")]
\* Item::updateTileFlags: the flags are recomputed from the attributes
updateTileFlags(st) ==
    [st EXCEPT !.flags = st.attrs, !.log = Append(@, "updateTileFlags")]

----------------------------------------------------------------------------
(* Decay engine *)

\* the duration an item decays with: its own duration attribute, or the
\* decay time of its item type
ConfiguredDuration(a, type) ==
    IF "DURATION" \in DOMAIN a THEN a["DURATION"] ELSE type.decayTime

\* Decay::startDecay: nothing for an item in progress; otherwise the item is
\* scheduled with its configured duration and is pending
startDecay(st, i, t, type) ==
    IF getDecaying(st.attrs) = DECAYING_TRUE
    THEN [st EXCEPT !.log = Append(@, "startDecay")]
    ELSE [st EXCEPT !.attrs = MapPut(@, "DECAYSTATE", DECAYING_PENDING),
                    !.map = MapPut(@, i, t + ConfiguredDuration(st.attrs, type)),
                    !.log = Append(@, "startDecay")]

\* Decay::stopDecay: the item is descheduled and stopped
stopDecay(st, i) ==
    [st EXCEPT !.attrs = MapPut(@, "DECAYSTATE", DECAYING_STOPPED),
               !.map = MapDel(@, i),
               !.log = Append(@, "stopDecay")]

\* Item::startDecaying
startDecaying(st, i, t, type) == startDecay(st, i, t, type)

----------------------------------------------------------------------------
(* item:setAttribute, item:setActionId, item:removeAttribute *)

\* the decay-state branch written as a plain attribute write
luaItemSetDecayStatePlainWrite(st, i, decayState, t, type) ==
    updateTileFlags(setAttribute(st, "DECAYSTATE", decayState))

\* the decay-state branch that stops the decay for None only
luaItemSetDecayStateOnlyFalse(st, i, decayState, t, type) ==
    IF decayState = DECAYING_FALSE
    THEN stopDecay(st, i)
    ELSE startDecay(st, i, t, type)

\* case DECAYSTATE of item:setAttribute
luaItemSetDecayState(st, i, decayState, t, type) ==
    IF decayState = DECAYING_FALSE \/ decayState = DECAYING_STOPPING
    THEN stopDecay(st, i)
    ELSE startDecay(st, i, t, type)

\* the duration branch without the write of the pending state
luaItemSetDurationAttrNoPending(st, i, duration, t, type) ==
    startDecay(setDuration(st, duration), i, t, type)

\* the duration branch that never starts the decay
luaItemSetDurationAttrNoStart(st, i, duration, t, type) ==
    setDuration(setDecaying(st, DECAYING_PENDING), duration)

\* case DURATION of item:setAttribute
luaItemSetDurationAttr(st, i, duration, t, type) ==
    startDecay(setDuration(setDecaying(st, DECAYING_PENDING), duration),
               i, t, type)

\* item:setAttribute(key, value) on item i
luaItemSetAttributeResult(st, i, key, value, t, type) ==
    IF isAttributeInteger(key)
    THEN IF key = "DECAYSTATE"
         THEN [st |-> luaItemSetDecayState(st, i, value, t, type),
               out |-> "true", err |-> 0]
         ELSE IF key = "DURATION"
         THEN [st |-> luaItemSetDurationAttr(st, i, value, t, type),
               out |-> "true", err |-> 0]
         ELSE IF key = "DURATION_TIMESTAMP"
         THEN [st |-> st, out |-> "false", err |-> 1]
         ELSE [st |-> updateTileFlags(setAttribute(st, key, value)),
               out |-> "true", err |-> 0]
    ELSE IF isAttributeString(key)
    THEN [st |-> updateTileFlags(setAttribute(st, key, value)),
          out |-> "true", err |-> 0]
    ELSE [st |-> st, out |-> "nil", err |-> 0]

\* the part of the state an attribute call leaves alone
attrFrame == <<gateVars, items, nItems, ud, now, itemTypes,
               customAttributes, monster, monVars>>

\* observation: 1 when the call before this one was the same setAttribute
\* call on the same item
SameCallAgain(i, key, value) ==
    IF last.op = "setAttribute" /\ last.item = i /\ last.res = i
       /\ last.kept = {key} /\ last.args[1] = value
    THEN 1 ELSE 0

luaItemSetAttribute(u, key, value) ==
    /\ ~faulted
    /\ LET i == ud[u]
       IN  IF i = NoItem
           THEN /\ last' = Last("setAttribute", i, 0, NoItem, "nil", 0)
                /\ UNCHANGED <<attrs, decayMap, tileFlags>>
           ELSE LET r == luaItemSetAttributeResult(AttrState(i), i, key, value,
                                                   now, itemTypes[items[i].id])
                IN  /\ attrs' = [attrs EXCEPT ![i] = r.st.attrs]
                    /\ decayMap' = r.st.map
                    /\ tileFlags' = [tileFlags EXCEPT ![i] = r.st.flags]
                    /\ last' = [Last("setAttribute", i, 0, i, r.out, r.err)
                                   EXCEPT !.kept = {key}, !.log = r.st.log,
                                          !.args = <<value, getDecaying(attrs[i]),
                                                     SameCallAgain(i, key, value)>>]
    /\ UNCHANGED attrFrame

\* item:setActionId(actionId)
luaItemSetActionIdResult(st, actionId) == setAttribute(st, "ACTIONID", actionId)

luaItemSetActionId(u, actionId) ==
    /\ ~faulted
    /\ LET i == ud[u]
       IN  IF i = NoItem
           THEN /\ last' = Last("setActionId", i, 0, NoItem, "nil", 0)
                /\ UNCHANGED <<attrs, tileFlags>>
           ELSE LET st == luaItemSetActionIdResult(AttrState(i), actionId)
                IN  /\ attrs' = [attrs EXCEPT ![i] = st.attrs]
                    /\ tileFlags' = [tileFlags EXCEPT ![i] = st.flags]
                    /\ last' = [Last("setActionId", i, 0, i, "true", 0)
                                   EXCEPT !.kept = {"ACTIONID"}, !.log = st.log,
                                          !.args = <<actionId>>]
    /\ UNCHANGED decayMap
    /\ UNCHANGED attrFrame

\* Item::removeAttribute(key)
removeAttribute(a, key) == MapDel(a, key)

\* item:removeAttribute(key) without the duration-timestamp guard
luaItemRemoveAttributeResultNoGuard(a, key) ==
    IF key # "UNIQUEID"
    THEN [attrs |-> removeAttribute(a, key), out |-> "true", err |-> 0]
    ELSE [attrs |-> a, out |-> "false", err |-> 1]

\* item:removeAttribute(key)
luaItemRemoveAttributeResult(a, key) ==
    IF key # "UNIQUEID"
    THEN IF key # "DURATION_TIMESTAMP"
         THEN [attrs |-> removeAttribute(a, key), out |-> "true", err |-> 0]
         ELSE [attrs |-> a, out |-> "false", err |-> 1]
    ELSE [attrs |-> a, out |-> "false", err |-> 1]

luaItemRemoveAttribute(u, key) ==
    /\ ~faulted
    /\ LET i == ud[u]
       IN  IF i = NoItem
           THEN /\ last' = Last("removeAttribute", i, 0, NoItem, "nil", 0)
                /\ UNCHANGED attrs
           ELSE LET r == luaItemRemoveAttributeResult(attrs[i], key)
                IN  /\ attrs' = [attrs EXCEPT ![i] = r.attrs]
                    /\ last' = [Last("removeAttribute", i, 0, i, r.out, r.err)
                                   EXCEPT !.kept = {key}]
    /\ UNCHANGED <<decayMap, tileFlags>>
    /\ UNCHANGED attrFrame

----------------------------------------------------------------------------
(* Custom attributes *)

\* Lua values: t is the Lua type; a number is held in halves (n = 3 is 1.5)
LuaNil == [t |-> "nil", n |-> 0, s |-> "", b |-> FALSE]
LuaNumber(halves) == [t |-> "number", n |-> halves, s |-> "", b |-> FALSE]
LuaString(str) == [t |-> "string", n |-> 0, s |-> str, b |-> FALSE]
LuaBoolean(bool) == [t |-> "boolean", n |-> 0, s |-> "", b |-> bool]
isNumber(v) == v.t = "number"
isString(v) == v.t = "string"
isBoolean(v) == v.t = "boolean"

\* std::floor of a number in halves, in halves
floor(halves) == halves - (halves % 2)
\* getNumber<int64_t>: the number converted to an integer (towards zero)
getNumberInt64(halves) ==
    IF halves >= 0 THEN halves \div 2 ELSE -((-halves) \div 2)
\* std::to_string of the integers used as keys
to_string(k) ==
    IF k < 0 THEN "-" \o (<<"0", "1", "2", "3">>[(-k) + 1])
    ELSE <<"0", "1", "2", "3">>[k + 1]

\* CustomAttribute: the four variants; n of a Double is in halves
CustomInt64(k) == [kind |-> "Int64", n |-> k, s |-> "", b |-> FALSE]
CustomDouble(halves) == [kind |-> "Double", n |-> halves, s |-> "", b |-> FALSE]
CustomString(str) == [kind |-> "String", n |-> 0, s |-> str, b |-> FALSE]
CustomBool(bool) == [kind |-> "Bool", n |-> 0, s |-> "", b |-> bool]

\* CustomAttribute::pushToLua
pushToLua(cv) ==
    IF cv.kind = "Int64" THEN LuaNumber(2 * cv.n)
    ELSE IF cv.kind = "Double" THEN LuaNumber(cv.n)
    ELSE IF cv.kind = "String" THEN LuaString(cv.s)
    ELSE LuaBoolean(cv.b)

\* the key of a custom attribute call: a number is converted to an integer
\* and printed, a string is taken as it is, anything else is no key
HasCustomKey(key) == isNumber(key) \/ isString(key)
CustomKey(key) ==
    IF isNumber(key) THEN to_string(getNumberInt64(key.n)) ELSE key.s

\* the variant chooser that stores every number as an integer
luaItemSetCustomAttributeValueAlwaysInt64(value) ==
    IF isNumber(value) THEN CustomInt64(getNumberInt64(value.n))
    ELSE IF isString(value) THEN CustomString(value.s)
    ELSE CustomBool(value.b)

\* the variant item:setCustomAttribute stores for a number, string or boolean
luaItemSetCustomAttributeValue(value) ==
    IF isNumber(value)
    THEN IF floor(value.n) < value.n
         THEN CustomDouble(value.n)
         ELSE CustomInt64(getNumberInt64(value.n))
    ELSE IF isString(value) THEN CustomString(value.s)
    ELSE CustomBool(value.b)

customFrame == <<gateVars, itemVars, decayMap, now, itemTypes, tileFlags,
                 monster, monVars>>

\* item:setCustomAttribute(key, value)
luaItemSetCustomAttribute(u, key, value) ==
    /\ ~faulted
    /\ LET i == ud[u]
           stored == i # NoItem /\ HasCustomKey(key)
                     /\ (isNumber(value) \/ isString(value) \/ isBoolean(value))
       IN  /\ customAttributes' =
                 IF stored
                 THEN [customAttributes EXCEPT ![i] =
                         MapPut(@, CustomKey(key),
                                luaItemSetCustomAttributeValue(value))]
                 ELSE customAttributes
           /\ last' = [Last("setCustomAttribute", i, 0,
                            IF i = NoItem THEN NoItem ELSE i,
                            IF stored THEN "true" ELSE "nil", 0)
                          EXCEPT !.args = <<key, value>>]
    /\ UNCHANGED customFrame

\* what item:getCustomAttribute(key) pushes for item i
luaItemGetCustomAttributeResult(c, key) ==
    IF ~HasCustomKey(key) THEN LuaNil
    ELSE IF CustomKey(key) \in DOMAIN c THEN pushToLua(c[CustomKey(key)])
    ELSE LuaNil

\* item:getCustomAttribute(key)
luaItemGetCustomAttribute(u, key) ==
    /\ ~faulted
    /\ LET i == ud[u]
           ret == IF i = NoItem THEN LuaNil
                  ELSE luaItemGetCustomAttributeResult(customAttributes[i], key)
       IN  last' = [Last("getCustomAttribute", i, 0,
                         IF i = NoItem THEN NoItem ELSE i,
                         ret.t, 0)
                       EXCEPT !.args = <<key, ret>>]
    /\ UNCHANGED customAttributes
    /\ UNCHANGED customFrame

\* item:removeCustomAttribute(key)
luaItemRemoveCustomAttribute(u, key) ==
    /\ ~faulted
    /\ LET i == ud[u]
           has == i # NoItem /\ HasCustomKey(key)
                  /\ CustomKey(key) \in DOMAIN customAttributes[i]
       IN  /\ customAttributes' =
                 IF has
                 THEN [customAttributes EXCEPT ![i] = MapDel(@, CustomKey(key))]
                 ELSE customAttributes
           /\ last' = [Last("removeCustomAttribute", i, 0,
                            IF i = NoItem THEN NoItem ELSE i,
                            IF i = NoItem \/ ~HasCustomKey(key) THEN "nil"
                            ELSE IF has THEN "true" ELSE "false", 0)
                          EXCEPT !.args = <<key>>]
    /\ UNCHANGED customFrame

----------------------------------------------------------------------------
(* Serialization *)

\* the attributes in the order they are written, the tag of an attribute
\* being its place in this order
SerialKeys == <<"UNIQUEID", "ACTIONID", "TEXT", "DURATION", "DECAYSTATE",
                "DURATION_TIMESTAMP">>
RECURSIVE intBytes(_)
\* an integer value as little-endian bytes
intBytes(v) == IF v < 256 THEN <<v>> ELSE <<v % 256>> \o intBytes(v \div 256)
RECURSIVE bytesInt(_)
bytesInt(b) == IF Len(b) = 0 THEN 0 ELSE b[1] + 256 * bytesInt(Tail(b))
\* a string value v is the string of v characters 'a'
textBytes(v) == [k \in 1 .. v |-> 97]
bytesText(b) == Len(b)

\* one length-prefixed record: tag, length of the payload, payload
attrRecord(tag, value) ==
    LET payload == IF isAttributeString(SerialKeys[tag]) THEN textBytes(value)
                   ELSE intBytes(value)
    IN  <<tag, Len(payload)>> \o payload

RECURSIVE serializeFrom(_, _)
serializeFrom(a, tag) ==
    IF tag > Len(SerialKeys) THEN << >>
    ELSE (IF SerialKeys[tag] \in DOMAIN a
          THEN attrRecord(tag, a[SerialKeys[tag]]) ELSE << >>)
         \o serializeFrom(a, tag + 1)

\* Item::serializeAttr into a PropWriteStream: a record for every attribute
\* that is set
serializeAttr(a) == serializeFrom(a, 1)

RECURSIVE unserializeAttr(_)
\* the persistence side: the attribute set read back from a stream; reading
\* stops at a record that is cut short
unserializeAttr(b) ==
    IF Len(b) < 2 THEN NoAttrs
    ELSE IF b[1] \notin 1 .. Len(SerialKeys) \/ Len(b) < 2 + b[2] THEN NoAttrs
    ELSE LET key == SerialKeys[b[1]]
             payload == SubSeq(b, 3, 2 + b[2])
             value == IF isAttributeString(key) THEN bytesText(payload)
                      ELSE bytesInt(payload)
         IN  MapPut(unserializeAttr(SubSeq(b, 3 + b[2], Len(b))), key, value)

\* the bytes before the first zero byte (a C string)
CStringLen(b) ==
    IF \E k \in 1 .. Len(b) : b[k] = 0
    THEN (CHOOSE k \in 1 .. Len(b) :
             b[k] = 0 /\ \A j \in 1 .. (k - 1) : b[j] # 0) - 1
    ELSE Len(b)

\* item:serializeAttributes pushing the stream as a C string
luaItemSerializeAttributesCString(a) ==
    LET attributes == serializeAttr(a)
    IN  SubSeq(attributes, 1, CStringLen(attributes))

\* the Lua string item:serializeAttributes pushes: attributesSize bytes of
\* the stream
luaItemSerializeAttributesResult(a) ==
    LET attributes == serializeAttr(a)
        attributesSize == Len(attributes)
    IN  SubSeq(attributes, 1, attributesSize)

serialFrame == <<gateVars, decayMap, now, itemTypes, tileFlags,
                 customAttributes, monster, monVars>>

\* item:serializeAttributes()
luaItemSerializeAttributes(u) ==
    /\ ~faulted
    /\ LET i == ud[u]
       IN  last' = IF i = NoItem
                   THEN Last("serializeAttributes", i, 0, NoItem, "nil", 0)
                   ELSE [Last("serializeAttributes", i, 0, i, "string", 0)
                            EXCEPT !.log = luaItemSerializeAttributesResult(attrs[i])]
    /\ UNCHANGED itemVars
    /\ UNCHANGED serialFrame

\* the persistence side loads an item from the bytes a script serialized:
\* a new instance of the same item with the attributes read back
loadItem(dst) ==
    /\ ~faulted
    /\ last.op = "serializeAttributes"
    /\ last.res # NoItem
    /\ nItems < MaxItems
    /\ items' = [items EXCEPT ![nItems + 1] = items[last.item]]
    /\ nItems' = nItems + 1
    /\ attrs' = [attrs EXCEPT ![nItems + 1] = unserializeAttr(last.log)]
    /\ ud' = [ud EXCEPT ![dst] = nItems + 1]
    /\ last' = [Last("load", last.item, 0, nItems + 1, "userdata", 0)
                   EXCEPT !.log = last.log]
    /\ UNCHANGED serialFrame

----------------------------------------------------------------------------
(* item:decay, item:setDuration and the engine's timer *)

NoDecay == [decayTo |-> 0, decayTime |-> 0, showDuration |-> FALSE]

decayFrame == <<gateVars, items, nItems, ud, now, tileFlags,
                customAttributes, monster, monVars>>

\* item:decay(decayId): a numeric decayId is written to the item type of
\* the item, then the item starts decaying
luaItemDecay(u, hasDecayId, decayId) ==
    /\ ~faulted
    /\ LET i == ud[u]
       IN  IF i = NoItem
           THEN /\ last' = Last("decay", i, 0, NoItem, "nil", 0)
                /\ UNCHANGED <<attrs, decayMap, itemTypes>>
           ELSE LET id == items[i].id
                    it == IF hasDecayId
                          THEN [itemTypes[id] EXCEPT !.decayTo = decayId]
                          ELSE itemTypes[id]
                    st == startDecaying(AttrState(i), i, now, it)
                IN  /\ itemTypes' = [itemTypes EXCEPT ![id] = it]
                    /\ attrs' = [attrs EXCEPT ![i] = st.attrs]
                    /\ decayMap' = st.map
                    /\ last' = [Last("decay", i, 0, i, "true",
                                     IF hasDecayId THEN 2 ELSE 1)
                                   EXCEPT !.log = st.log,
                                          !.args = <<decayId>>]
    /\ UNCHANGED decayFrame

\* uniform_random(minNumber, maxNumber): any value of the range
uniform_random(minNumber, maxNumber) ==
    IF minNumber <= maxNumber THEN minNumber .. maxNumber
    ELSE maxNumber .. minNumber

\* the decay time taken from the draw alone
luaItemSetDurationTimeDrawOnly(minDuration, maxDuration) == maxDuration

\* the decay time item:setDuration writes to the item type
luaItemSetDurationTime(minDuration, maxDuration) ==
    IF maxDuration = 0 THEN minDuration ELSE maxDuration

\* item:setDuration(minDuration, maxDuration = 0, decayTo = 0,
\* showDuration = true): top is the number of values on the Lua stack (the
\* item included)
luaItemSetDuration(u, top, minDuration, maxArg, decayToArg, showArg) ==
    /\ ~faulted
    /\ LET i == ud[u]
       IN  IF i = NoItem
           THEN /\ last' = Last("setDuration", i, 0, NoItem, "false", 1)
                /\ UNCHANGED <<attrs, decayMap, itemTypes>>
           ELSE \E maxDuration \in IF top > 2
                                   THEN uniform_random(minDuration, maxArg)
                                   ELSE {0} :
                LET id == items[i].id
                    it == [decayTo |-> IF top > 3 THEN ToUint16(decayToArg)
                                       ELSE 0,
                           decayTime |-> luaItemSetDurationTime(minDuration,
                                                                maxDuration),
                           showDuration |-> IF top > 4 THEN showArg ELSE TRUE]
                    st == startDecaying(AttrState(i), i, now, it)
                IN  /\ itemTypes' = [itemTypes EXCEPT ![id] = it]
                    /\ attrs' = [attrs EXCEPT ![i] = st.attrs]
                    /\ decayMap' = st.map
                    /\ last' = [Last("setDuration", i, 0, i, "true", top)
                                   EXCEPT !.log = st.log,
                                          !.args = <<minDuration, maxArg,
                                                     decayToArg, showArg>>]
    /\ UNCHANGED decayFrame

\* one tick of the game scheduler: the pending items of the schedule are in
\* progress from their first tick on
DecayTick ==
    /\ ~faulted
    /\ now < MaxTime
    /\ now' = now + 1
    /\ attrs' = [i \in ItemIds |->
                   IF i \in DOMAIN decayMap
                      /\ getDecaying(attrs[i]) = DECAYING_PENDING
                   THEN MapPut(attrs[i], "DECAYSTATE", DECAYING_TRUE)
                   ELSE attrs[i]]
    /\ last' = Last("tick", NoItem, 0, NoItem, "none", 0)
    /\ UNCHANGED <<gateVars, items, nItems, ud, decayMap, itemTypes,
                   tileFlags, customAttributes, monster, monVars>>

\* the handles of item i, dropped from every environment
deregisterHandles(env, i) ==
    [env EXCEPT !.localMap =
        [h \in {x \in DOMAIN env.localMap : env.localMap[x] # i} |->
            env.localMap[h]]]

\* expiry of item i: it leaves the schedule and is replaced by its
\* decay-to item, or removed when its type names none
DecayExpire(i) ==
    /\ ~faulted
    /\ i \in DOMAIN decayMap
    /\ getDecaying(attrs[i]) = DECAYING_TRUE
    /\ decayMap[i] <= now
    /\ LET decayTo == itemTypes[items[i].id].decayTo
           t == IF decayTo = 0
                THEN [items |-> [items EXCEPT ![i].parent = "null"],
                      nItems |-> nItems, ret |-> NoItem]
                ELSE transformItem(items, nItems, i, decayTo, -1)
       IN  /\ (decayTo # 0 /\ TransformCreates(items, i, decayTo))
                 => nItems < MaxItems
           /\ items' = t.items
           /\ nItems' = t.nItems
           /\ scriptEnv' = [d \in DOMAIN scriptEnv |->
                              IF isRemoved(t.items, i)
                              THEN deregisterHandles(scriptEnv[d], i)
                              ELSE scriptEnv[d]]
           /\ last' = Last("expire", i, 0, t.ret, "none", 0)
    /\ decayMap' = MapDel(decayMap, i)
    /\ attrs' = [attrs EXCEPT ![i] = MapDel(@, "DECAYSTATE")]
    /\ UNCHANGED <<depth, lastUID, luaStack, faulted, ud, now, itemTypes,
                   tileFlags, customAttributes, monster, monVars>>

----------------------------------------------------------------------------
(* Monster forge bindings (MonsterFunctions) *)

\* ForgeClassifications_t
FORGE_NORMAL_MONSTER == 0
FORGE_INFLUENCED_MONSTER == 1
FORGE_FIENDISH_MONSTER == 2
ForgeClassifications == FORGE_NORMAL_MONSTER .. FORGE_FIENDISH_MONSTER

\* CreatureIcon(kind, badge)
CreatureIcon(kind, badge) == [kind |-> kind, badge |-> badge]

\* the forge icon with the threshold one too high
luaMonsterSetForgeStackIconOffByOne(stack) ==
    LET icon == IF stack <= 15 THEN "Influenced" ELSE "Fiendish"
    IN  CreatureIcon(icon, IF icon = "Influenced" THEN ToUint8(stack) ELSE 0)

\* the forge icon monster:setForgeStack derives from the stack
luaMonsterSetForgeStackIcon(stack) ==
    LET icon == IF stack < 15 THEN "Influenced" ELSE "Fiendish"
    IN  CreatureIcon(icon, IF icon = "Influenced" THEN ToUint8(stack) ELSE 0)

\* monster:setForgeStack that sets the stack and nothing else
luaMonsterSetForgeStackResultStackOnly(m, stackArg) ==
    [monster |-> [m EXCEPT !.forgeStack = ToUint16(stackArg)],
     log |-> <<"setForgeStack">>]

\* monster:setForgeStack(stack) on a monster: the stack, the icon derived
\* from it, and the two notifications of the game
luaMonsterSetForgeStackResult(m, stackArg) ==
    LET stack == ToUint16(stackArg)
    IN  [monster |-> [m EXCEPT !.forgeStack = stack,
                               !.icon = luaMonsterSetForgeStackIcon(stack)],
         log |-> <<"setForgeStack", "setIcon", "updateCreatureIcon",
                   "sendUpdateCreature">>]

monsterFrame == <<gateVars, itemVars, decayMap, now, itemTypes, tileFlags,
                  customAttributes, monVars>>

\* a monster binding called without a monster: error, false, nothing returned
MonsterNotFound(op) ==
    /\ last' = [Last(op, NoItem, 0, NoItem, "false", 1)
                   EXCEPT !.log = <<"reportError">>]
    /\ UNCHANGED monster

luaMonsterSetForgeStack(present, stackArg) ==
    /\ ~faulted
    /\ IF ~present THEN MonsterNotFound("setForgeStack")
       ELSE LET r == luaMonsterSetForgeStackResult(monster, stackArg)
            IN  /\ monster' = r.monster
                /\ last' = [Last("setForgeStack", NoItem, 0, NoItem, "none", 0)
                               EXCEPT !.log = r.log, !.args = <<stackArg>>]
    /\ UNCHANGED monsterFrame

\* monster:setMonsterForgeClassification(classification)
luaMonsterSetMonsterForgeClassification(present, classification) ==
    /\ ~faulted
    /\ IF ~present THEN MonsterNotFound("setMonsterForgeClassification")
       ELSE /\ monster' = [monster EXCEPT !.classification = classification]
            /\ last' = [Last("setMonsterForgeClassification", NoItem, 0, NoItem,
                             "none", 0)
                           EXCEPT !.log = <<"setMonsterForgeClassification">>,
                                  !.args = <<classification>>]
    /\ UNCHANGED monsterFrame

\* the icon derived from a stack count
ForgeIcon(stack) ==
    IF stack < 15 THEN CreatureIcon("Influenced", stack)
    ELSE CreatureIcon("Fiendish", 0)

\* the stacks Monster::configureForgeSystem gives a monster of a class
ConfiguredStacks(classification) ==
    IF classification = FORGE_FIENDISH_MONSTER THEN {15}
    ELSE IF classification = FORGE_INFLUENCED_MONSTER THEN {1, 5}
    ELSE {}

\* Monster::configureForgeSystem: the stack of the monster's class, with
\* the icon and the re-render that go with a change of the stack
configureForgeSystem(m, stack) ==
    [monster |-> [m EXCEPT !.forgeStack = stack, !.icon = ForgeIcon(stack)],
     log |-> <<"configureForgeSystem", "setForgeStack", "setIcon",
               "updateCreatureIcon", "sendUpdateCreature">>]

\* monster:configureForgeSystem()
luaMonsterConfigureForgeSystem(present) ==
    /\ ~faulted
    /\ IF ~present THEN MonsterNotFound("configureForgeSystem")
       ELSE IF ConfiguredStacks(monster.classification) = {}
       THEN /\ UNCHANGED monster
            /\ last' = [Last("configureForgeSystem", NoItem, 0, NoItem, "none", 0)
                           EXCEPT !.log = <<"configureForgeSystem">>]
       ELSE \E stack \in ConfiguredStacks(monster.classification) :
               LET r == configureForgeSystem(monster, stack)
               IN  /\ monster' = r.monster
                   /\ last' = [Last("configureForgeSystem", NoItem, 0, NoItem,
                                    "none", 0)
                                  EXCEPT !.log = r.log]
    /\ UNCHANGED monsterFrame

\* Monster::clearFiendishStatus: back to a plain monster without stacks
clearFiendishStatus(m) ==
    [monster |-> [m EXCEPT !.forgeStack = 0,
                           !.classification = FORGE_NORMAL_MONSTER,
                           !.icon = ForgeIcon(0)],
     log |-> <<"clearFiendishStatus", "setIcon", "updateCreatureIcon",
               "sendUpdateCreature">>]

\* monster:clearFiendishStatus()
luaMonsterClearFiendishStatus(present) ==
    /\ ~faulted
    /\ IF ~present THEN MonsterNotFound("clearFiendishStatus")
       ELSE LET r == clearFiendishStatus(monster)
            IN  /\ monster' = r.monster
                /\ last' = [Last("clearFiendishStatus", NoItem, 0, NoItem,
                                 "none", 0)
                               EXCEPT !.log = r.log]
    /\ UNCHANGED monsterFrame

----------------------------------------------------------------------------
(* Monster hazard bindings (MonsterFunctions) *)

HazardFlags == {"crit", "dodge", "damageBoost", "defenseBoost"}
NoHazard == [f \in HazardFlags |-> FALSE]

\* pushBoolean
pushBoolean(b) == IF b THEN "true" ELSE "false"

\* the state every monster binding of this part leaves alone
relationFrame == <<gateVars, itemVars, decayMap, now, itemTypes, tileFlags,
                   customAttributes, monster>>

\* the accessor with the setter forgotten: it answers the old flag
luaMonsterHazardResultNoSet(h, flag, top, v) ==
    [hazard |-> h, out |-> pushBoolean(h[flag])]

\* body of the four accessors on a monster: with one argument on the stack
\* the flag is read, otherwise it is set and read back
luaMonsterHazardResult(h, flag, top, v) ==
    IF top = 1 THEN [hazard |-> h, out |-> pushBoolean(h[flag])]
    ELSE LET set == [h EXCEPT ![flag] = v]
         IN  [hazard |-> set, out |-> pushBoolean(set[flag])]

\* one accessor call; args keeps the value and the flags before the call
luaMonsterHazardCall(op, flag, present, top, v) ==
    /\ ~faulted
    /\ IF ~present
       THEN /\ last' = [Last(op, NoItem, 0, NoItem, "nil", top)
                           EXCEPT !.args = <<v, hazard>>, !.target = flag]
            /\ UNCHANGED hazard
       ELSE LET r == luaMonsterHazardResult(hazard, flag, top, v)
            IN  /\ hazard' = r.hazard
                /\ last' = [Last(op, NoItem, 0, NoItem, r.out, top)
                               EXCEPT !.args = <<v, hazard>>, !.target = flag,
                                      !.kept = {"monster"}]
    /\ UNCHANGED <<relationFrame, friendList, targetList, monsterInfo,
                   distanceUntil, position, masterPos, spawnsMonster, params,
                   pushed>>

\* monster:hazardCrit([hazardCrit])
luaMonsterHazardCrit(present, top, v) ==
    luaMonsterHazardCall("hazardCrit", "crit", present, top, v)
\* monster:hazardDodge([hazardDodge])
luaMonsterHazardDodge(present, top, v) ==
    luaMonsterHazardCall("hazardDodge", "dodge", present, top, v)
\* monster:hazardDamageBoost([hazardDamageBoost])
luaMonsterHazardDamageBoost(present, top, v) ==
    luaMonsterHazardCall("hazardDamageBoost", "damageBoost", present, top, v)
\* monster:hazardDefenseBoost([hazardDefenseBoost])
luaMonsterHazardDefenseBoost(present, top, v) ==
    luaMonsterHazardCall("hazardDefenseBoost", "defenseBoost", present, top, v)

----------------------------------------------------------------------------
(* Monster friend and target lists (MonsterFunctions) *)

\* getCreature(L, 2) of an argument that resolves to no creature: nullptr
NoCreature == 0
\* creature id of the monster the bindings are called on
Self == 1
CreatureIds == 1 .. MaxCreatures
\* what a script can pass as the creature argument
CreatureArgs == {NoCreature} \cup CreatureIds

\* index of creature in the list, 0 when it is not in it
getTargetIterator(tl, creature) ==
    IF \E k \in 1 .. Len(tl) : tl[k] = creature
    THEN CHOOSE k \in 1 .. Len(tl) : tl[k] = creature
    ELSE 0
\* the list without creature
eraseTarget(tl, creature) == SelectSeq(tl, LAMBDA c : c # creature)

\* Monster::addFriend without its guard: whatever is passed is inserted
addFriendUnchecked(fl, creature) == fl \cup {creature}

\* Monster::addFriend: the friend list holds creatures other than the
\* monster itself; inserting a friend twice changes nothing
addFriend(fl, creature) ==
    IF creature = NoCreature \/ creature = Self THEN fl
    ELSE fl \cup {creature}

\* Monster::removeFriend: the entry is dropped if present
removeFriend(fl, creature) == fl \ {creature}

\* Monster::addTarget: the lists a call can leave.  A new target goes to the
\* front or to the back; a target already in the list gets no second
\* entry, and with pushFront it may move to the front.
addTarget(tl, creature, pushFront) ==
    IF creature = NoCreature \/ creature = Self THEN {tl}
    ELSE IF getTargetIterator(tl, creature) # 0
    THEN IF pushFront
         THEN {tl, <<creature>> \o eraseTarget(tl, creature)}
         ELSE {tl}
    ELSE IF pushFront THEN {<<creature>> \o tl}
    ELSE {Append(tl, creature)}

\* Monster::removeTarget: the matching entry is dropped
removeTarget(tl, creature) == eraseTarget(tl, creature)

\* the frame of the friend and target bindings
listFrame == <<relationFrame, hazard, monsterInfo, distanceUntil, position,
               masterPos, spawnsMonster, params, pushed>>

\* a binding of this part called without a monster: nil
MonsterNil(op, creature) ==
    last' = [Last(op, NoItem, 0, NoItem, "nil", 0)
                EXCEPT !.args = <<creature, FALSE, targetList, friendList>>]

\* the call record of a list binding on a monster; args keeps the
\* arguments and both lists before the call
ListCall(op, creature, pushFront, out, table) ==
    [Last(op, NoItem, 0, NoItem, out, 0)
        EXCEPT !.args = <<creature, pushFront, targetList, friendList>>,
               !.log = table, !.kept = {"monster"}]

\* monster:addFriend(creature)
luaMonsterAddFriend(present, creature) ==
    /\ ~faulted
    /\ IF ~present
       THEN MonsterNil("addFriend", creature) /\ UNCHANGED friendList
       ELSE /\ friendList' = addFriend(friendList, creature)
            /\ last' = ListCall("addFriend", creature, FALSE, "true", << >>)
    /\ UNCHANGED <<listFrame, targetList>>

\* monster:removeFriend(creature)
luaMonsterRemoveFriend(present, creature) ==
    /\ ~faulted
    /\ IF ~present
       THEN MonsterNil("removeFriend", creature) /\ UNCHANGED friendList
       ELSE /\ friendList' = removeFriend(friendList, creature)
            /\ last' = ListCall("removeFriend", creature, FALSE, "true", << >>)
    /\ UNCHANGED <<listFrame, targetList>>

\* the flag with every call a push to the back
luaMonsterAddTargetPushFrontIgnored(top, arg) == FALSE

\* getBoolean(L, 3, false): the third argument, false when there is none
luaMonsterAddTargetPushFront(top, arg) == IF top >= 3 THEN arg ELSE FALSE

\* monster:addTarget(creature[, pushFront = false])
luaMonsterAddTarget(present, creature, top, arg) ==
    /\ ~faulted
    /\ IF ~present
       THEN MonsterNil("addTarget", creature) /\ UNCHANGED targetList
       ELSE LET pushFront == luaMonsterAddTargetPushFront(top, arg)
            IN  /\ targetList' \in addTarget(targetList, creature, pushFront)
                /\ last' = [ListCall("addTarget", creature, arg, "true", << >>)
                               EXCEPT !.aux = top]
    /\ UNCHANGED <<listFrame, friendList>>

\* monster:removeTarget(creature)
luaMonsterRemoveTarget(present, creature) ==
    /\ ~faulted
    /\ IF ~present
       THEN MonsterNil("removeTarget", creature) /\ UNCHANGED targetList
       ELSE /\ targetList' = removeTarget(targetList, creature)
            /\ last' = ListCall("removeTarget", creature, FALSE, "true", << >>)
    /\ UNCHANGED <<listFrame, friendList>>

\* the table monster:getTargetList() builds: index k holds the k-th entry
luaMonsterGetTargetListResult(tl) == [index \in 1 .. Len(tl) |-> tl[index]]

\* monster:getTargetList()
luaMonsterGetTargetList(present) ==
    /\ ~faulted
    /\ last' = IF ~present
               THEN [Last("getTargetList", NoItem, 0, NoItem, "nil", 0)
                        EXCEPT !.args = <<NoCreature, FALSE, targetList,
                                          friendList>>]
               ELSE ListCall("getTargetList", NoCreature, FALSE, "table",
                             luaMonsterGetTargetListResult(targetList))
    /\ UNCHANGED <<listFrame, friendList, targetList>>

----------------------------------------------------------------------------
(* monster:setType and monster:changeTargetDistance (MonsterFunctions) *)

\* the monster types of g_monsters: race id, script events and the values
\* setType copies; both types use the event "Shared"
MonsterTypeNames == {"rat", "dragon"}
g_monsters ==
    [name \in MonsterTypeNames |->
        IF name = "rat"
        THEN [raceId |-> 1, scripts |-> {"RatDeath", "Shared"}, outfit |-> 21,
              skull |-> 0, health |-> 20, baseSpeed |-> 67,
              targetDistance |-> 1]
        ELSE [raceId |-> 2, scripts |-> {"DragonThink", "Shared"},
              outfit |-> 34, skull |-> 1, health |-> 1000, baseSpeed |-> 86,
              targetDistance |-> 4]]
\* what a read through a null MonsterType pointer yields when the process
\* does not stop there
GarbageType == [raceId |-> -1, scripts |-> {}, outfit |-> -1, skull |-> -1,
                health |-> -1, baseSpeed |-> -1, targetDistance |-> -1]
\* *mType, "null" being the null pointer
TypeInfo(mType) == IF mType = "null" THEN GarbageType ELSE g_monsters[mType]

\* g_monsters().getMonsterType(name): nullptr for an unknown name
getMonsterType(name) == IF name \in MonsterTypeNames THEN name ELSE "null"
\* g_monsters().getMonsterTypeByRaceId(raceId): nullptr for an unknown id
getMonsterTypeByRaceId(raceId) ==
    IF \E name \in MonsterTypeNames : g_monsters[name].raceId = raceId
    THEN CHOOSE name \in MonsterTypeNames : g_monsters[name].raceId = raceId
    ELSE "null"

\* a monster of a type, as the game creates it
MonsterOfType(name) ==
    [mType |-> name, events |-> g_monsters[name].scripts,
     outfit |-> g_monsters[name].outfit, skull |-> g_monsters[name].skull,
     health |-> g_monsters[name].health,
     baseSpeed |-> g_monsters[name].baseSpeed,
     targetDistance |-> g_monsters[name].targetDistance]

\* the type the argument of setType names
luaMonsterSetTypeLookup(arg) ==
    IF isNumber(arg)
    THEN getMonsterTypeByRaceId(ToUint16(getNumberInt64(arg.n)))
    ELSE getMonsterType(arg.s)

\* Creature::unregisterCreatureEvent and registerCreatureEvent over the
\* script names of a type
unregisterCreatureEvents(events, scripts) == events \ scripts
registerCreatureEvents(events, scripts) == events \cup scripts

\* the monster after the statements of setType, run to the end: the events
\* of the current type are unregistered, the type is assigned, its values
\* are copied and its events registered
luaMonsterSetTypeResult(m, mType, restoreHealth) ==
    [mType |-> mType,
     events |-> registerCreatureEvents(
                   unregisterCreatureEvents(m.events,
                                            TypeInfo(m.mType).scripts),
                   TypeInfo(mType).scripts),
     outfit |-> TypeInfo(mType).outfit,
     skull |-> TypeInfo(mType).skull,
     health |-> IF restoreHealth THEN TypeInfo(mType).health ELSE m.health,
     baseSpeed |-> TypeInfo(mType).baseSpeed,
     targetDistance |-> TypeInfo(mType).targetDistance]

\* the monster when the process stops at the first read through the null
\* type: the events are unregistered and the type pointer is null already
luaMonsterSetTypeStopped(m, mType) ==
    [m EXCEPT !.mType = mType,
              !.events = unregisterCreatureEvents(m.events,
                                                  TypeInfo(m.mType).scripts)]

typeFrame == <<depth, scriptEnv, lastUID, luaStack, itemVars, decayMap,
               itemTypes, tileFlags, customAttributes, monster, hazard,
               friendList, targetList, position, masterPos, spawnsMonster,
               params, pushed>>

\* monster:setType(name or raceid, restoreHealth = false).  A type that was
\* not found, or a monster whose type is null already, is read through a
\* null pointer: the process stops there or carries on with what it read.
luaMonsterSetType(present, arg, restoreHealth) ==
    /\ ~faulted
    /\ IF ~present
       THEN /\ last' = [Last("setType", NoItem, 0, NoItem, "nil", 0)
                           EXCEPT !.args = <<arg, restoreHealth, monsterInfo>>]
            /\ UNCHANGED <<monsterInfo, faulted>>
       ELSE LET mType == luaMonsterSetTypeLookup(arg)
                call(out) == [Last("setType", NoItem, 0, NoItem, out, 0)
                                EXCEPT !.args = <<arg, restoreHealth,
                                                  monsterInfo>>,
                                       !.target = mType,
                                       !.kept = {"monster"}]
            IN  \/ /\ monsterInfo' = luaMonsterSetTypeResult(
                                         monsterInfo, mType, restoreHealth)
                   /\ last' = call("true")
                   /\ UNCHANGED faulted
                \/ /\ mType = "null" \/ monsterInfo.mType = "null"
                   /\ monsterInfo' = luaMonsterSetTypeStopped(monsterInfo,
                                                              mType)
                   /\ last' = call("fault")
                   /\ faulted' = TRUE
    /\ UNCHANGED <<typeFrame, now, distanceUntil>>

\* Monster::changeTargetDistance: the distance is overridden until
\* now + duration
changeTargetDistance(m, distance, duration) ==
    [monsterInfo |-> [m EXCEPT !.targetDistance = distance],
     distanceUntil |-> <<now + duration>>, ret |-> TRUE]

\* the binding's arguments: getNumber<int32_t>(L, 2, 1) and
\* getNumber<uint32_t>(L, 3, 12000)
luaMonsterChangeTargetDistanceArgs(top, distance, duration) ==
    [distance |-> IF top >= 2 THEN distance ELSE 1,
     duration |-> IF top >= 3 THEN duration ELSE 12000]

\* monster:changeTargetDistance(distance[, duration = 12000]); an override
\* that would end after MaxTime is not started in this model
luaMonsterChangeTargetDistance(present, top, distance, duration) ==
    /\ ~faulted
    /\ LET a == luaMonsterChangeTargetDistanceArgs(top, distance, duration)
           r == changeTargetDistance(monsterInfo, a.distance, a.duration)
       IN  /\ now < MaxTime
           /\ now + a.duration <= MaxTime
           /\ IF ~present
              THEN /\ last' = [Last("changeTargetDistance", NoItem, 0, NoItem,
                                    "nil", top)
                                  EXCEPT !.args = <<a.distance, a.duration,
                                                    monsterInfo>>]
                   /\ UNCHANGED <<monsterInfo, distanceUntil>>
              ELSE /\ monsterInfo' = r.monsterInfo
                   /\ distanceUntil' = r.distanceUntil
                   /\ last' = [Last("changeTargetDistance", NoItem, 0, NoItem,
                                    pushBoolean(r.ret), top)
                                  EXCEPT !.args = <<a.distance, a.duration,
                                                    monsterInfo>>,
                                         !.kept = {"monster"}]
    /\ UNCHANGED <<typeFrame, now, faulted>>

\* one think of the monster on the game tick: time advances, and an
\* override whose duration has elapsed is replaced by the target distance
\* of the monster's type.  Through a null type that is a read through a
\* null pointer.
MonsterThink ==
    /\ ~faulted
    /\ now < MaxTime
    /\ now' = now + 1
    /\ IF distanceUntil # << >> /\ distanceUntil[1] <= now + 1
       THEN /\ distanceUntil' = << >>
            /\ monsterInfo' =
                  [monsterInfo EXCEPT !.targetDistance =
                      TypeInfo(monsterInfo.mType).targetDistance]
            /\ \/ faulted' = faulted
               \/ monsterInfo.mType = "null" /\ faulted' = TRUE
       ELSE UNCHANGED <<distanceUntil, monsterInfo, faulted>>
    /\ last' = Last("think", NoItem, 0, NoItem, "none", 0)
    /\ UNCHANGED typeFrame

----------------------------------------------------------------------------
(* monster:setSpawnPosition (MonsterFunctions) *)

\* a uint32_t as two 16-bit halves: the value is hi * 65536 + lo
ToUint32(n) == [hi |-> (n \div 65536) % 65536, lo |-> n % 65536]
\* uint32_t multiplication by a small factor, wrapping at 2^32
MulUint32(x, k) ==
    LET low == x.lo * k
    IN  [hi |-> (x.hi * k + low \div 65536) % 65536, lo |-> low % 65536]
\* uint32_t division by a divisor below 2^15
DivUint32(x, d) ==
    [hi |-> x.hi \div d, lo |-> ((x.hi % d) * 65536 + x.lo) \div d]
\* std::max
Max(a, b) == IF a < b THEN b ELSE a

\* tiles a monster can stand on
Positions == {"p1", "p2"}

\* the interval with the division done before the last multiplication
luaMonsterSetSpawnPositionIntervalDivFirst(seconds, rate, eventschedule) ==
    MulUint32(MulUint32(ToUint32(seconds), 1000),
              100 \div Max(1, rate * eventschedule))

\* getNumber<uint32_t>(L, 2, 90) * 1000 * 100
\*    / std::max((uint32_t)1, RATE_SPAWN * eventschedule)
luaMonsterSetSpawnPositionInterval(seconds, rate, eventschedule) ==
    DivUint32(MulUint32(MulUint32(ToUint32(seconds), 1000), 100),
              Max(1, rate * eventschedule))

\* SpawnMonster(pos, 5) with the one monster addMonster puts in it
SpawnMonster(pos, typeName, interval) ==
    [pos |-> pos, radius |-> 5, name |-> typeName, interval |-> interval]

\* the monster walks to another tile (the game, not a script)
MonsterWalk(pos) ==
    /\ ~faulted
    /\ pos # position
    /\ position' = pos
    /\ last' = Last("walk", NoItem, 0, NoItem, "none", 0)
    /\ UNCHANGED <<relationFrame, hazard, friendList, targetList, monsterInfo,
                   distanceUntil, masterPos, spawnsMonster, params, pushed>>

\* monster:setSpawnPosition(interval); rate and eventschedule are what the
\* configuration and the events scheduler answer during the call
luaMonsterSetSpawnPosition(present, top, arg, rate, eventschedule) ==
    /\ ~faulted
    /\ LET seconds == IF top >= 2 THEN arg ELSE 90
           interval == luaMonsterSetSpawnPositionInterval(seconds, rate,
                                                         eventschedule)
           call(out) == [Last("setSpawnPosition", NoItem, 0, NoItem, out, top)
                           EXCEPT !.args = <<seconds, rate, eventschedule,
                                             spawnsMonster>>]
       IN  IF ~present
           THEN /\ last' = call("nil")
                /\ UNCHANGED <<masterPos, spawnsMonster>>
           ELSE /\ Len(spawnsMonster) < MaxSpawns
                /\ masterPos' = position
                /\ spawnsMonster' =
                      Append(spawnsMonster,
                             SpawnMonster(position, monsterInfo.mType,
                                          interval))
                /\ last' = [call("true") EXCEPT !.kept = {"monster"}]
    /\ UNCHANGED <<relationFrame, hazard, friendList, targetList, monsterInfo,
                   distanceUntil, position, params, pushed>>

----------------------------------------------------------------------------
(* CreatureCallback::pushSpecificCreature *)

\* a creature is an Npc, a Monster, a Player or none of them ("Creature");
\* "expired" is the null pointer
CreatureKinds == CreatureVariants \cup {"Creature"}
getNpc(creature) == creature = "Npc"
getMonster(creature) == creature = "Monster"
getPlayer(creature) == creature = "Player"

\* the userdata pushUserdata<T> leaves on the stack, with its metatable
Userdata(variant, metatable) == [variant |-> variant, metatable |-> metatable]

\* pushSpecificCreature that counts a parameter whether it pushed or not
pushSpecificCreatureResultCountsAlways(creature, stack, count) ==
    IF getNpc(creature)
    THEN [pushed |-> Append(stack, Userdata("Npc", getCreatureClass(creature))),
          params |-> count + 1]
    ELSE IF getMonster(creature)
    THEN [pushed |-> Append(stack, Userdata("Monster",
                                            getCreatureClass(creature))),
          params |-> count + 1]
    ELSE IF getPlayer(creature)
    THEN [pushed |-> Append(stack, Userdata("Player",
                                            getCreatureClass(creature))),
          params |-> count + 1]
    ELSE [pushed |-> stack, params |-> count + 1]

\* pushSpecificCreature on a creature: the first variant that answers is
\* pushed, the parameter is counted and the class is set as metatable;
\* without a variant the function returns at once
pushSpecificCreatureResult(creature, stack, count) ==
    IF getNpc(creature)
    THEN [pushed |-> Append(stack, Userdata("Npc", getCreatureClass(creature))),
          params |-> count + 1]
    ELSE IF getMonster(creature)
    THEN [pushed |-> Append(stack, Userdata("Monster",
                                            getCreatureClass(creature))),
          params |-> count + 1]
    ELSE IF getPlayer(creature)
    THEN [pushed |-> Append(stack, Userdata("Player",
                                            getCreatureClass(creature))),
          params |-> count + 1]
    ELSE [pushed |-> stack, params |-> count]

\* pushSpecificCreature(creature).  creature->getNpc() on a null creature
\* is a call through a null pointer: the process stops, or carries on as
\* if any one of the branches had been taken.
pushSpecificCreature(creature) ==
    /\ ~faulted
    /\ params < MaxParams
    /\ LET call(out, stack, count) ==
               [Last("pushSpecificCreature", NoItem, 0, NoItem, out, 0)
                   EXCEPT !.target = creature, !.args = <<stack, count>>,
                          !.log = <<getCreatureClass(creature)>>]
       IN  IF creature = "expired"
           THEN \/ /\ faulted' = TRUE
                   /\ last' = call("fault", pushed, params)
                   /\ UNCHANGED <<pushed, params>>
                \/ \E read \in CreatureKinds :
                      LET r == pushSpecificCreatureResult(read, pushed, params)
                      IN  /\ pushed' =
                                IF r.params = params THEN pushed
                                ELSE Append(pushed,
                                            Userdata(read,
                                                     getCreatureClass(creature)))
                          /\ params' = r.params
                          /\ last' = call("none", pushed, params)
                          /\ UNCHANGED faulted
           ELSE LET r == pushSpecificCreatureResult(creature, pushed, params)
                IN  /\ pushed' = r.pushed
                    /\ params' = r.params
                    /\ last' = call("none", pushed, params)
                    /\ UNCHANGED faulted
    /\ UNCHANGED <<depth, scriptEnv, lastUID, luaStack, itemVars, decayMap, now,
                   itemTypes, tileFlags, customAttributes, monster, hazard,
                   friendList, targetList, monsterInfo, distanceUntil,
                   position, masterPos, spawnsMonster>>

\* getCreatureClass(creature), called by a logging caller; the answer is
\* kept in the call record
getCreatureClassCall(creature) ==
    /\ ~faulted
    /\ last' = [Last("getCreatureClass", NoItem, 0, NoItem, "none", 0)
                   EXCEPT !.target = creature,
                          !.log = <<getCreatureClass(creature)>>]
    /\ UNCHANGED <<gateVars, itemVars, extVars>>

----------------------------------------------------------------------------
(* Item owner and imbuement bindings (ItemFunctions) *)

\* Item::getOwnerId: the owner attribute, 0 without an owner
getOwnerId(a) == getAttribute(a, "OWNER")
\* Item::setOwner(creatureId)
setOwner(a, creatureId) == MapPut(a, "OWNER", creatureId)

ownerFrame == <<gateVars, items, nItems, ud>>

\* what a binding answers that returns 1 without pushing a value: the value
\* on top of the Lua stack, which is the last argument of the call
ReturnsTop == "argument"
\* what a binding answers that returns 0: no value
ReturnsNothing == "none"

\* the call record of an owner binding
OwnerCall(op, i, out, log) ==
    [Last(op, i, 0, i, out, 0) EXCEPT !.log = log]

\* item:hasOwner()
luaItemHasOwnerResult(i, a) ==
    IF i = NoItem THEN [out |-> ReturnsTop, log |-> <<"reportError">>]
    ELSE [out |-> pushBoolean(getOwnerId(a) # 0), log |-> << >>]

luaItemHasOwner(u) ==
    /\ InScript
    /\ LET i == ud[u]
           r == luaItemHasOwnerResult(i, IF i = NoItem THEN NoAttrs
                                         ELSE attrs[i])
       IN  last' = OwnerCall("hasOwner", i, r.out, r.log)
    /\ UNCHANGED <<ownerFrame, attrs, extVars>>

\* item:getOwnerId()
luaItemGetOwnerId(u) ==
    /\ InScript
    /\ LET i == ud[u]
       IN  last' = IF i = NoItem
                   THEN OwnerCall("getOwnerId", i, ReturnsNothing,
                                  <<"reportError">>)
                   ELSE IF getOwnerId(attrs[i]) # 0
                   THEN [OwnerCall("getOwnerId", i, "number", << >>)
                            EXCEPT !.aux = getOwnerId(attrs[i])]
                   ELSE OwnerCall("getOwnerId", i, "nil", << >>)
    /\ UNCHANGED <<ownerFrame, attrs, extVars>>

\* item:isOwner(creature|creatureId): isUserdata tells which one was passed
luaItemIsOwner(u, isUserdata, creature) ==
    /\ InScript
    /\ LET i == ud[u]
       IN  last' = IF i = NoItem
                   THEN OwnerCall("isOwner", i, ReturnsNothing,
                                  <<"reportError">>)
                   ELSE IF isUserdata /\ creature = NoCreature
                   THEN OwnerCall("isOwner", i, ReturnsNothing,
                                  <<"reportError">>)
                   ELSE IF isUserdata \/ creature # 0
                   THEN OwnerCall("isOwner", i,
                                  pushBoolean(getOwnerId(attrs[i]) = creature),
                                  << >>)
                   ELSE OwnerCall("isOwner", i, "false", << >>)
    /\ UNCHANGED <<ownerFrame, attrs, extVars>>

\* item:setOwner(creature|creatureId)
luaItemSetOwner(u, isUserdata, creature) ==
    /\ InScript
    /\ LET i == ud[u]
       IN  IF i = NoItem \/ (isUserdata /\ creature = NoCreature)
           THEN /\ last' = OwnerCall("setOwner", i, ReturnsNothing,
                                     <<"reportError">>)
                /\ UNCHANGED attrs
           ELSE IF isUserdata \/ creature # 0
           THEN /\ attrs' = [attrs EXCEPT ![i] = setOwner(@, creature)]
                /\ last' = OwnerCall("setOwner", i, "true", << >>)
           ELSE /\ last' = OwnerCall("setOwner", i, "false", << >>)
                /\ UNCHANGED attrs
    /\ UNCHANGED <<ownerFrame, extVars>>

\* item:getImbuement() on an item without an imbuement: the loop pushes
\* nothing and the binding returns 1
luaItemGetImbuement(u) ==
    /\ InScript
    /\ LET i == ud[u]
       IN  last' = IF i = NoItem
                   THEN OwnerCall("getImbuement", i, "false",
                                  <<"reportError">>)
                   ELSE OwnerCall("getImbuement", i, ReturnsTop, << >>)
    /\ UNCHANGED <<ownerFrame, attrs, extVars>>

----------------------------------------------------------------------------
(* Leaving a script call *)

\* the temporary items of a scope that are still on the virtual parent
ReleasedBy(e, its) == {i \in e.tempItems : its[i].parent = "virtual"}

\* LuaScriptInterface::resetScriptEnv, run by the caller on the normal and
\* on the error return of the script: release the temporary items, clear
\* the scope, make the parent scope active again
resetScriptEnv(outcome) ==
    /\ InScript
    /\ LET e == ActiveEnv
       IN  /\ items' = [i \in ItemIds |->
                          IF i \in ReleasedBy(e, items)
                          THEN [items[i] EXCEPT !.parent = "null"] ELSE items[i]]
           /\ last' = [Last("leave", NoItem, 0, NoItem, outcome, e.scriptId)
                          EXCEPT !.rel = ReleasedBy(e, items),
                                 !.kept = e.tempItems \ ReleasedBy(e, items)]
    /\ scriptEnv' = [scriptEnv EXCEPT ![depth] = EmptyEnv]
    /\ depth' = depth - 1
    /\ luaStack' = SubSeq(luaStack, 1, Len(luaStack) - 1)
    /\ ud' = [u \in UdSlots |-> NoItem]
    /\ UNCHANGED <<lastUID, faulted, nItems, attrs>>
    /\ UNCHANGED extVars

----------------------------------------------------------------------------
(* Specification of the gate, the registry and the item bindings *)

InitGate ==
    /\ depth = 0
    /\ scriptEnv = [d \in 1 .. MaxScriptEnv |-> EmptyEnv]
    /\ lastUID = LastUidInit
    /\ luaStack = << >>
    /\ faulted = FALSE

InitItems ==
    /\ items = [i \in ItemIds |->
                  IF i = 1 THEN [id |-> 1, count |-> MaxCount, parent |-> "c1"]
                  ELSE UnbornItem]
    /\ nItems = 1
    /\ ud = [u \in UdSlots |-> NoItem]
    /\ attrs = [i \in ItemIds |-> NoAttrs]
    /\ last = NoLast

\* a rat with no relations, no hazard flag and no target-distance
\* override, standing on its spawn position; no spawn record was added
InitMonster ==
    /\ hazard = NoHazard
    /\ friendList = {}
    /\ targetList = << >>
    /\ monsterInfo = MonsterOfType("rat")
    /\ distanceUntil = << >>
    /\ position = "p1"
    /\ masterPos = "p1"
    /\ spawnsMonster = << >>
    /\ params = 0
    /\ pushed = << >>

\* nothing is decaying, no custom attribute is set, the monster is plain
InitExt ==
    /\ decayMap = EmptyMap
    /\ now = 0
    /\ itemTypes = [id \in ItemTypeIds |-> NoDecay]
    /\ tileFlags = attrs
    /\ customAttributes = [i \in ItemIds |-> EmptyCustom]
    /\ monster = NoMonster
    /\ InitMonster

Init == InitGate /\ InitItems /\ InitExt /\ calls = 0

HandleInputs == (LastUidInit + 1) .. (LastUidInit + MaxHandles) \cup {1}

\* one more call of a run of at most MaxCalls calls
Call == calls < MaxCalls /\ calls' = calls + 1
\* one more call of a run of at most MaxGateCalls nested calls
GateCall == calls < MaxGateCalls /\ calls' = calls + 1

\* a top-level script call working on items
Next ==
    \/ Call /\ depth = 0 /\ startScriptInterface(1, "Monster")
    \/ Call /\ \E outcome \in {"ok", "error"} : resetScriptEnv(outcome)
    \/ Call /\ \E i \in ItemIds : pushUserdata(1, i)
    \/ Call /\ \E uid \in HandleInputs, dst \in UdSlots : luaItemCreate(uid, dst)
    \/ Call /\ \E u \in UdSlots, dst \in UdSlots : luaItemClone(u, dst)
    \/ Call /\ \E u \in UdSlots, cnt \in 0 .. (MaxCount + 1), dst \in UdSlots :
                  luaItemSplit(u, cnt, dst)
    \/ Call /\ \E u \in UdSlots, itemId \in {0} \cup ItemTypeIds,
                  subType \in -1 .. MaxCount : luaItemTransform(u, itemId, subType)
    \/ Call /\ \E u \in UdSlots, to \in RealCylinders \cup {"none"}, ok \in BOOLEAN :
                  luaItemMoveTo(u, to, ok)
    \/ Call /\ \E u \in UdSlots, count \in {-1, 1} : luaItemRemove(u, count)
    \/ Call /\ \E u \in UdSlots : luaItemGetUniqueId(u)
    \/ Call /\ \E u \in UdSlots : luaItemSetAttribute(u, "UNIQUEID", 1)

Spec == Init /\ [][Next]_vars

\* nested script calls through the gate
NextGate ==
    \/ GateCall /\ \E sid \in ScriptIds, t \in Targets : startScriptInterface(sid, t)
    \/ GateCall /\ \E outcome \in {"ok", "error"} : resetScriptEnv(outcome)
    \/ GateCall /\ \E i \in ItemIds : pushUserdata(1, i)
    \/ GateCall /\ \E uid \in HandleInputs, dst \in UdSlots : luaItemCreate(uid, dst)
    \/ GateCall /\ \E u \in UdSlots, dst \in UdSlots : luaItemClone(u, dst)
    \/ GateCall /\ \E u \in UdSlots, to \in RealCylinders \cup {"none"}, ok \in BOOLEAN :
                  luaItemMoveTo(u, to, ok)
    \/ GateCall /\ \E u \in UdSlots : luaItemGetUniqueId(u)

SpecGate == Init /\ [][NextGate]_vars

\* attribute calls on an item loaded with any attribute set
InitAttr ==
    /\ InitGate
    /\ items = [i \in ItemIds |->
                  IF i = 1 THEN [id |-> 1, count |-> MaxCount, parent |-> "c1"]
                  ELSE UnbornItem]
    /\ nItems = 1
    /\ ud = [u \in UdSlots |-> IF u = 1 THEN 1 ELSE NoItem]
    /\ \E ks \in SUBSET (AttrKeys \ {"NONE"}) : \E a \in [ks -> AttrVals] :
          attrs = [i \in ItemIds |-> IF i = 1 THEN a ELSE NoAttrs]
    /\ last = NoLast
    /\ calls = 0
    /\ InitExt

NextAttr ==
    \/ /\ \E u \in UdSlots, key \in AttrKeys, v \in AttrVals :
             luaItemSetAttribute(u, key, v)
       /\ UNCHANGED calls
    \/ /\ \E u \in UdSlots, key \in AttrKeys : luaItemRemoveAttribute(u, key)
       /\ UNCHANGED calls
    \/ /\ \E u \in UdSlots, actionId \in AttrVals : luaItemSetActionId(u, actionId)
       /\ UNCHANGED calls

SpecAttr == InitAttr /\ [][NextAttr]_vars

\* decay calls and the engine's timer on one item that is not decaying yet
InitDecay ==
    /\ InitGate
    /\ items = [i \in ItemIds |->
                  IF i = 1 THEN [id |-> 1, count |-> MaxCount, parent |-> "c1"]
                  ELSE UnbornItem]
    /\ nItems = 1
    /\ ud = [u \in UdSlots |-> IF u = 1 THEN 1 ELSE NoItem]
    /\ attrs = [i \in ItemIds |-> NoAttrs]
    /\ last = NoLast
    /\ calls = 0
    /\ InitExt

NextDecay ==
    \/ /\ \E u \in UdSlots, decayState \in DecayStates :
             luaItemSetAttribute(u, "DECAYSTATE", decayState)
       /\ UNCHANGED calls
    \/ /\ \E u \in UdSlots, duration \in DurationVals :
             luaItemSetAttribute(u, "DURATION", duration)
       /\ UNCHANGED calls
    \/ /\ \E u \in UdSlots :
             \/ luaItemDecay(u, FALSE, 0)
             \/ \E decayId \in {0} \cup ItemTypeIds : luaItemDecay(u, TRUE, decayId)
       /\ UNCHANGED calls
    \/ /\ \E u \in UdSlots, minDuration \in {1, 2} :
             \/ luaItemSetDuration(u, 2, minDuration, 0, 0, TRUE)
             \/ \E maxArg \in {0, 2} :
                   luaItemSetDuration(u, 3, minDuration, maxArg, 0, TRUE)
             \/ \E maxArg \in {0, 2}, decayTo \in {0, 2} :
                   luaItemSetDuration(u, 4, minDuration, maxArg, decayTo, TRUE)
       /\ UNCHANGED calls
    \/ DecayTick /\ UNCHANGED calls
    \/ \E i \in ItemIds : DecayExpire(i) /\ UNCHANGED calls

SpecDecay == InitDecay /\ [][NextDecay]_vars

\* custom attribute calls on one item
CustomKeyInputs == {LuaNumber(2), LuaNumber(3), LuaString("1"), LuaString("a"),
                    LuaNil}
CustomValueInputs == {LuaNumber(h) : h \in {-3, -2, 0, 3, 4}}
                     \cup {LuaString("a"), LuaBoolean(TRUE), LuaNil}

NextCustom ==
    \/ /\ \E u \in UdSlots, key \in CustomKeyInputs, value \in CustomValueInputs :
             luaItemSetCustomAttribute(u, key, value)
       /\ UNCHANGED calls
    \/ /\ \E u \in UdSlots, key \in CustomKeyInputs : luaItemGetCustomAttribute(u, key)
       /\ UNCHANGED calls
    \/ /\ \E u \in UdSlots, key \in CustomKeyInputs :
             luaItemRemoveCustomAttribute(u, key)
       /\ UNCHANGED calls

SpecCustom == InitDecay /\ [][NextCustom]_vars

\* serialization of an item loaded with any attribute set
SerialIntVals == {0, 1, 256}
SerialTextVals == {0, 1, 2}
InitSerial ==
    /\ InitGate
    /\ items = [i \in ItemIds |->
                  IF i = 1 THEN [id |-> 1, count |-> MaxCount, parent |-> "c1"]
                  ELSE UnbornItem]
    /\ nItems = 1
    /\ ud = [u \in UdSlots |-> IF u = 1 THEN 1 ELSE NoItem]
    /\ \E ks \in SUBSET {"UNIQUEID", "ACTIONID", "TEXT", "DURATION"} :
          \E a \in [ks -> SerialIntVals \cup SerialTextVals] :
             /\ \A k \in ks : a[k] \in IF isAttributeString(k) THEN SerialTextVals
                                       ELSE SerialIntVals
             /\ attrs = [i \in ItemIds |-> IF i = 1 THEN a ELSE NoAttrs]
    /\ last = NoLast
    /\ calls = 0
    /\ InitExt

NextSerial ==
    \/ /\ \E u \in UdSlots : luaItemSerializeAttributes(u)
       /\ UNCHANGED calls
    \/ /\ loadItem(NumUd)
       /\ UNCHANGED calls

SpecSerial == InitSerial /\ [][NextSerial]_vars

\* forge calls on one monster
ForgeStackInputs == {0, 1, 14, 15, 16, 255, 256, 65535}

NextForge ==
    \/ /\ \E present \in BOOLEAN, stack \in ForgeStackInputs :
             luaMonsterSetForgeStack(present, stack)
       /\ UNCHANGED calls
    \/ /\ \E present \in BOOLEAN, classification \in ForgeClassifications :
             luaMonsterSetMonsterForgeClassification(present, classification)
       /\ UNCHANGED calls
    \/ /\ \E present \in BOOLEAN : luaMonsterConfigureForgeSystem(present)
       /\ UNCHANGED calls
    \/ /\ \E present \in BOOLEAN : luaMonsterClearFiendishStatus(present)
       /\ UNCHANGED calls

SpecForge == InitDecay /\ [][NextForge]_vars

\* hazard accessor calls on one monster
NextHazard ==
    \/ /\ \E present \in BOOLEAN, top \in {1, 2}, v \in BOOLEAN :
             luaMonsterHazardCrit(present, top, v)
       /\ UNCHANGED calls
    \/ /\ \E present \in BOOLEAN, top \in {1, 2}, v \in BOOLEAN :
             luaMonsterHazardDodge(present, top, v)
       /\ UNCHANGED calls
    \/ /\ \E present \in BOOLEAN, top \in {1, 2}, v \in BOOLEAN :
             luaMonsterHazardDamageBoost(present, top, v)
       /\ UNCHANGED calls
    \/ /\ \E present \in BOOLEAN, top \in {1, 2}, v \in BOOLEAN :
             luaMonsterHazardDefenseBoost(present, top, v)
       /\ UNCHANGED calls

SpecHazard == InitDecay /\ [][NextHazard]_vars

\* friend and target calls on one monster
NextRelations ==
    \/ /\ \E present \in BOOLEAN, creature \in CreatureArgs :
             luaMonsterAddFriend(present, creature)
       /\ UNCHANGED calls
    \/ /\ \E present \in BOOLEAN, creature \in CreatureArgs :
             luaMonsterRemoveFriend(present, creature)
       /\ UNCHANGED calls
    \/ /\ \E present \in BOOLEAN, creature \in CreatureArgs, top \in {2, 3},
             arg \in BOOLEAN :
             luaMonsterAddTarget(present, creature, top, arg)
       /\ UNCHANGED calls
    \/ /\ \E present \in BOOLEAN, creature \in CreatureArgs :
             luaMonsterRemoveTarget(present, creature)
       /\ UNCHANGED calls
    \/ /\ \E present \in BOOLEAN : luaMonsterGetTargetList(present)
       /\ UNCHANGED calls

SpecRelations == InitDecay /\ [][NextRelations]_vars

\* what a script passes to setType: the name or race id of a type, or a
\* name or race id that no type has
SetTypeArgs == {LuaString("rat"), LuaString("dragon"), LuaString("ghost"),
                LuaNumber(2), LuaNumber(4), LuaNumber(6)}

\* setType and changeTargetDistance calls on one monster that thinks on
\* every game tick
NextType ==
    \/ /\ \E present \in BOOLEAN, arg \in SetTypeArgs, restoreHealth \in BOOLEAN :
             luaMonsterSetType(present, arg, restoreHealth)
       /\ UNCHANGED calls
    \/ /\ \E present \in BOOLEAN, top \in {1, 2, 3}, distance \in {1, 5},
             duration \in 0 .. MaxTime :
             luaMonsterChangeTargetDistance(present, top, distance, duration)
       /\ UNCHANGED calls
    \/ MonsterThink /\ UNCHANGED calls

SpecType == InitDecay /\ [][NextType]_vars
\* the game tick is driven by the scheduler, whatever the scripts do
SpecTypeFair == SpecType /\ WF_vars(MonsterThink /\ UNCHANGED calls)

\* seconds a script passes to setSpawnPosition, and the answers of the
\* configuration (RATE_SPAWN) and of the events scheduler
SpawnSeconds == {42949, 42950}
SpawnRates == {0, 2}
SpawnSchedules == {0, 100}

NextSpawn ==
    \/ /\ \E present \in BOOLEAN, top \in {1, 2}, arg \in SpawnSeconds,
             rate \in SpawnRates, eventschedule \in SpawnSchedules :
             luaMonsterSetSpawnPosition(present, top, arg, rate, eventschedule)
       /\ UNCHANGED calls
    \/ /\ \E pos \in Positions : MonsterWalk(pos)
       /\ UNCHANGED calls

SpecSpawn == InitDecay /\ [][NextSpawn]_vars

\* a creature callback pushing its creature parameters
NextCallback ==
    \/ /\ \E creature \in CreatureKinds \cup {"expired"} :
             pushSpecificCreature(creature)
       /\ UNCHANGED calls
    \/ /\ \E creature \in CreatureKinds \cup {"expired"} :
             getCreatureClassCall(creature)
       /\ UNCHANGED calls

SpecCallback == InitDecay /\ [][NextCallback]_vars

\* owner, imbuement and stack calls of one script run, on live handles and
\* on handles whose item was consumed
NextOwner ==
    \/ Call /\ depth = 0 /\ startScriptInterface(1, "Monster")
    \/ Call /\ \E i \in ItemIds : pushUserdata(1, i)
    \/ Call /\ \E u \in UdSlots, cnt \in 0 .. (MaxCount + 1), dst \in UdSlots :
                  luaItemSplit(u, cnt, dst)
    \/ Call /\ \E u \in UdSlots, itemId \in {0} \cup ItemTypeIds,
                  subType \in -1 .. MaxCount : luaItemTransform(u, itemId, subType)
    \/ Call /\ \E u \in UdSlots, to \in RealCylinders \cup {"none"}, ok \in BOOLEAN :
                  luaItemMoveTo(u, to, ok)
    \/ Call /\ \E u \in UdSlots : luaItemHasOwner(u)
    \/ Call /\ \E u \in UdSlots : luaItemGetOwnerId(u)
    \/ Call /\ \E u \in UdSlots, isUserdata \in BOOLEAN, creature \in CreatureArgs :
                  luaItemIsOwner(u, isUserdata, creature)
    \/ Call /\ \E u \in UdSlots, isUserdata \in BOOLEAN, creature \in CreatureArgs :
                  luaItemSetOwner(u, isUserdata, creature)
    \/ Call /\ \E u \in UdSlots : luaItemGetImbuement(u)

SpecOwner == Init /\ [][NextOwner]_vars

\* the requested counts of item:split: none of the stack, part of it, all
\* of it, more than it holds, and the largest 16-bit request
SplitCounts == 0 .. (MaxCount + 1) \cup {65535}

\* stack calls of one script run on stackable, non-stackable and removed
\* items
NextSplit ==
    \/ Call /\ depth = 0 /\ startScriptInterface(1, "Monster")
    \/ Call /\ \E i \in ItemIds : pushUserdata(1, i)
    \/ Call /\ \E u \in UdSlots, cnt \in SplitCounts, dst \in UdSlots :
                  luaItemSplit(u, cnt, dst)
    \/ Call /\ \E u \in UdSlots, itemId \in ItemTypeIds :
                  luaItemTransform(u, itemId, -1)
    \/ Call /\ \E u \in UdSlots : luaItemRemove(u, -1)

SpecSplit == Init /\ [][NextSplit]_vars

\* decay calls on two items of one item id and one item of another id
InitTemplate ==
    /\ InitGate
    /\ items = [i \in ItemIds |->
                  IF i \in {1, 2} THEN [id |-> 1, count |-> 1, parent |-> "c1"]
                  ELSE IF i = 3 THEN [id |-> 2, count |-> 1, parent |-> "c1"]
                  ELSE UnbornItem]
    /\ nItems = 3
    /\ ud = [u \in UdSlots |-> IF u = 1 THEN 1 ELSE IF u = 2 THEN 3 ELSE NoItem]
    /\ attrs = [i \in ItemIds |-> NoAttrs]
    /\ last = NoLast
    /\ calls = 0
    /\ InitExt

NextTemplate ==
    \/ /\ \E u \in UdSlots :
             \/ luaItemDecay(u, FALSE, 0)
             \/ \E decayId \in {0} \cup ItemTypeIds : luaItemDecay(u, TRUE, decayId)
       /\ UNCHANGED calls
    \/ /\ \E u \in UdSlots, minDuration \in {1, 2} :
             \/ luaItemSetDuration(u, 2, minDuration, 0, 0, TRUE)
             \/ \E maxArg \in {0, 2, 3} :
                   luaItemSetDuration(u, 3, minDuration, maxArg, 0, TRUE)
             \/ \E maxArg \in {2, 3} :
                   luaItemSetDuration(u, 4, minDuration, maxArg, 2, TRUE)
             \/ \E maxArg \in {2, 3}, showArg \in BOOLEAN :
                   luaItemSetDuration(u, 5, minDuration, maxArg, 2, showArg)
       /\ UNCHANGED calls

SpecTemplate == InitTemplate /\ [][NextTemplate]_vars

----------------------------------------------------------------------------
(* Identity rebinding *)

LastMap == scriptEnv[last.env].localMap
SplitDone == last.op = "split" /\ last.out = "userdata"
SplitK == Min(last.args[1], last.args[2])
SplitN == last.args[2]

\* C1: after item:split(count) on a stackable live item with handle H and
\* count N (k = min(count, N)): H resolves to the remaining stack when
\* k < N, to the replacement when the mutation returned another live
\* instance, and to nothing when the original was consumed (k = N); H never
\* resolves to a removed item nor to the split-off item.
C1_SplitRebinds ==
    SplitDone =>
        /\ last.uid # 0
        /\ SplitK < SplitN =>
              /\ ~isRemoved(items, last.item)
              /\ getItemByUID(scriptEnv[last.env], last.uid) = last.item
        /\ (last.res # NoItem /\ last.res # last.item /\ ~isRemoved(items, last.res)) =>
              getItemByUID(scriptEnv[last.env], last.uid) = last.res
        /\ SplitK = SplitN =>
              /\ isRemoved(items, last.item)
              /\ last.uid \notin DOMAIN LastMap
        /\ last.uid \in DOMAIN LastMap =>
              /\ ~isRemoved(items, LastMap[last.uid])
              /\ LastMap[last.uid] # last.aux
        /\ \A h \in DOMAIN LastMap : LastMap[h] # last.aux

\* a split that consumed the whole stack and retired its handle
C1_Witness ==
    /\ SplitDone
    /\ SplitK = SplitN
    /\ isRemoved(items, last.item)
    /\ last.uid > LastUidInit
    /\ items[last.aux].count = SplitN
    /\ items[last.aux].parent = "virtual"

TransformDone == last.op = "transform" /\ last.aux = 1

\* C2: item:transform captures the handle H (allocating it if absent)
\* before the mutation; afterwards H is dropped when the original is
\* removed and mapped to the result when that is another live instance; no
\* later Item(H) of the same environment yields the removed original.
C2_TransformRebinds ==
    /\ TransformDone =>
          /\ ~isRemoved(items, last.item) =>
                /\ last.uid # 0
                /\ getItemByUID(scriptEnv[last.env], last.uid) = last.item
          /\ (last.uid # 0 /\ isRemoved(items, last.item)) =>
                getItemByUID(scriptEnv[last.env], last.uid) # last.item
          /\ (last.uid # 0 /\ last.res # NoItem /\ last.res # last.item) =>
                getItemByUID(scriptEnv[last.env], last.uid) = last.res
          /\ (last.uid # 0 /\ isRemoved(items, last.item) /\ last.res = NoItem) =>
                last.uid \notin DOMAIN LastMap
    /\ \A d \in 1 .. depth : \A p \in scriptEnv[d].retired :
          getItemByUID(scriptEnv[d], p[1]) # p[2]

\* a transform into another kind replaced the instance and rebound H, and
\* the script resolved H afterwards
C2_Witness ==
    /\ last.op = "Item"
    /\ last.res # NoItem
    /\ \E p \in scriptEnv[last.env].retired :
          /\ p[1] = last.uid
          /\ p[2] # last.res
          /\ isRemoved(items, p[2])

\* C3: no handle of an environment's handle map names an item that has
\* been removed from the world.
C3_NoStaleHandle ==
    \A d \in 1 .. depth : \A h \in DOMAIN scriptEnv[d].localMap :
        ~isRemoved(items, scriptEnv[d].localMap[h])

----------------------------------------------------------------------------
(* The script-call gate *)

\* C4: startScriptInterface returns false whenever the nesting depth has
\* reached the maximum or the script id is -1, leaving depth, environments
\* and the Lua function stack as they were; it returns true only after one
\* new slot was reserved and the script id set on it.
C4_EnterResult ==
    [][\A sid \in ScriptIds, t \in Targets :
          startScriptInterface(sid, t) =>
             /\ (sid = -1 \/ depth >= MaxScriptEnv) =>
                   /\ last'.out = "false"
                   /\ depth' = depth
                   /\ scriptEnv' = scriptEnv
                   /\ luaStack' = luaStack
             /\ last'.out = "true" =>
                   /\ sid # -1
                   /\ depth' = depth + 1
                   /\ scriptEnv'[depth'].scriptId = sid
                   /\ luaStack' = Append(luaStack, sid)]_vars

\* C5: a failed reservation is recoverable whether the weakly held target
\* creature is alive or expired: the call logs the target's class (and the
\* name of a live target) and returns false without faulting.
C5_OverflowRecoverable ==
    [][\A sid \in ScriptIds, t \in Targets :
          (startScriptInterface(sid, t) /\ sid # -1 /\ ~reserveScriptEnv) =>
             /\ ~faulted'
             /\ last'.out = "false"
             /\ Len(last'.log) = 2
             /\ last'.log[1] = getCreatureClass(t)
             /\ t # "expired" => last'.log[2] = t]_vars

\* C6: driving the nesting to depth max + 1 fails the innermost enter only:
\* the process keeps running, every outer environment keeps its script id,
\* handle map and temporary items, and an enter at depth 0 succeeds.
C6_OverflowContained ==
    /\ [][\A sid \in ScriptIds \ {-1}, t \in Targets :
             (startScriptInterface(sid, t) /\ depth = MaxScriptEnv) =>
                /\ ~faulted'
                /\ \A d \in 1 .. MaxScriptEnv : scriptEnv'[d] = scriptEnv[d]
                /\ depth' = depth
                /\ items' = items]_vars
    /\ [][\A sid \in ScriptIds \ {-1}, t \in Targets :
             (startScriptInterface(sid, t) /\ depth = 0) =>
                (last'.out = "true" /\ depth' = 1)]_vars

C8_HandleScope ==
    /\ [][\A uid \in HandleInputs, dst \in UdSlots :
             (luaItemCreate(uid, dst) /\ last'.res # NoItem) =>
                /\ uid \in DOMAIN scriptEnv[depth].localMap
                /\ last'.res = scriptEnv[depth].localMap[uid]
                /\ \A d \in 1 .. (depth - 1) :
                      uid \notin DOMAIN scriptEnv[d].localMap]_vars
    /\ [][\A o \in {"ok", "error"} :
             resetScriptEnv(o) =>
                \A h \in DOMAIN scriptEnv[depth].localMap :
                   \A d \in 1 .. MaxScriptEnv :
                      h \notin DOMAIN scriptEnv'[d].localMap]_vars
    /\ [][\A d \in 1 .. MaxScriptEnv :
             \A h \in DOMAIN scriptEnv'[d].localMap :
                h \notin DOMAIN scriptEnv[d].localMap => h > lastUID]_vars

\* the outer call asked for a handle that a nested call had allocated
\* before it left, and got nothing
C8_Witness ==
    /\ last.op = "Item"
    /\ last.out = "nil"
    /\ depth >= 1
    /\ last.uid > LastUidInit
    /\ last.uid <= lastUID
    /\ \A d \in 1 .. MaxScriptEnv : last.uid \notin DOMAIN scriptEnv[d].localMap

\* C9: item:getUniqueId() on a live item returns the stored unique-id
\* attribute when it is non-zero (allocating nothing) and a lazily
\* allocated handle otherwise, never 0; a second call returns the same
\* value, and Item(value) resolves back to the item.
C9_GetUniqueId ==
    /\ []((last.op = "getUniqueId" /\ last.out = "number"
           /\ ~isRemoved(items, last.item)) =>
             /\ last.uid # 0
             /\ getAttribute(attrs[last.item], "UNIQUEID") # 0 =>
                   (last.uid = getAttribute(attrs[last.item], "UNIQUEID")
                    /\ last.aux = 0)
             /\ getItemByUID(scriptEnv[last.env], last.uid) = last.item)
    /\ [][(last.op = "getUniqueId" /\ last'.op = "getUniqueId"
           /\ last.out = "number" /\ last'.out = "number"
           /\ last.item = last'.item) => last'.uid = last.uid]_vars

\* C10: item:removeAttribute(key) on the unique-id or the duration-timestamp
\* key reports an error, returns false and leaves every attribute as it
\* was; on any other key it removes exactly that attribute and returns true.
C10_RemoveAttribute ==
    [][\A u \in UdSlots, key \in AttrKeys :
          (luaItemRemoveAttribute(u, key) /\ ud[u] # NoItem) =>
             IF key \in ProtectedKeys
             THEN /\ last'.out = "false"
                  /\ last'.aux = 1
                  /\ attrs' = attrs
             ELSE /\ last'.out = "true"
                  /\ last'.aux = 0
                  /\ DOMAIN attrs'[ud[u]] = (DOMAIN attrs[ud[u]]) \ {key}
                  /\ \A k \in DOMAIN attrs'[ud[u]] :
                        attrs'[ud[u]][k] = attrs[ud[u]][k]
                  /\ \A j \in ItemIds \ {ud[u]} : attrs'[j] = attrs[j]]_vars

\* removing the unique id of an item that has one was rejected
C10_Witness ==
    /\ last.op = "removeAttribute"
    /\ last.out = "false"
    /\ last.kept = {"UNIQUEID"}
    /\ last.item # NoItem
    /\ "UNIQUEID" \in DOMAIN attrs[last.item]
    /\ "DURATION_TIMESTAMP" \in DOMAIN attrs[last.item]

----------------------------------------------------------------------------
(* Protected keys and the decay coupling of item:setAttribute *)

\* C11: item:setAttribute(key, value) on the unique-id or the
\* duration-timestamp key reports an error, returns false and leaves every
\* attribute as it was, for every value.
C11_SetAttributeProtected ==
    [][\A u \in UdSlots, key \in ProtectedKeys, v \in AttrVals :
          (luaItemSetAttribute(u, key, v) /\ ud[u] # NoItem) =>
             /\ last'.out = "false"
             /\ last'.aux = 1
             /\ attrs' = attrs]_vars

\* the values of the stop path, and the states of a scheduled item
StopValues == {DECAYING_FALSE, DECAYING_STOPPING}
Decaying(a) == getDecaying(a) \in {DECAYING_PENDING, DECAYING_TRUE}

\* the call just made was item:setAttribute(key, ...) on an item
SetAttributeOf(key) ==
    last'.op = "setAttribute" /\ last'.kept = {key} /\ last'.res # NoItem

\* C12: item:setAttribute(decay-state, v) invokes exactly the engine's stop
\* path for v in {None, Stopping} and exactly the start path for every other
\* v, returns true and never writes v as an attribute.
C12_DecayStateDispatch ==
    [][SetAttributeOf("DECAYSTATE") =>
          LET i == last'.item
              v == last'.args[1]
          IN  /\ last'.out = "true"
              /\ last'.log = <<IF v \in StopValues THEN "stopDecay"
                               ELSE "startDecay">>
              /\ \A k \in (DOMAIN attrs'[i]) \ {"DECAYSTATE"} :
                    k \in DOMAIN attrs[i] /\ attrs'[i][k] = attrs[i][k]
              /\ IF v \in StopValues
                 THEN /\ i \notin DOMAIN decayMap'
                      /\ getDecaying(attrs'[i]) = DECAYING_STOPPED
                 ELSE IF getDecaying(attrs[i]) = DECAYING_TRUE
                 THEN attrs' = attrs /\ decayMap' = decayMap
                 ELSE /\ i \in DOMAIN decayMap'
                      /\ getDecaying(attrs'[i]) = DECAYING_PENDING]_vars

\* the stop path was taken for Stopping on an item that was in progress
C12_Witness ==
    /\ last.op = "setAttribute"
    /\ last.kept = {"DECAYSTATE"}
    /\ last.args[1] = DECAYING_STOPPING
    /\ last.args[2] = DECAYING_TRUE
    /\ last.log = <<"stopDecay">>
    /\ last.item \notin DOMAIN decayMap

\* C13: item:setAttribute(duration, d) sets the decay state to Pending,
\* stores d as the duration and starts decay tracking, in that order, for
\* every d and every decay state the item was in; afterwards the item is
\* scheduled with duration d.
C13_DurationRestarts ==
    [][SetAttributeOf("DURATION") =>
          LET i == last'.item
              d == last'.args[1]
          IN  /\ last'.out = "true"
              /\ last'.log = <<"setDecaying", "setDuration", "startDecay">>
              /\ "DURATION" \in DOMAIN attrs'[i]
              /\ attrs'[i]["DURATION"] = d
              /\ getDecaying(attrs'[i]) = DECAYING_PENDING
              /\ i \in DOMAIN decayMap'
              /\ decayMap'[i] = now + d]_vars

\* the duration of an item that was in progress was set to another value
C13_Witness ==
    /\ last.op = "setAttribute"
    /\ last.kept = {"DURATION"}
    /\ last.args[2] = DECAYING_TRUE
    /\ now >= 1
    /\ last.item \in DOMAIN decayMap
    /\ decayMap[last.item] = now + last.args[1]

\* C14: an item is registered with the decay engine exactly when its decay
\* state is Pending or InProgress.
C14_RegisteredIffDecaying ==
    \A i \in ItemIds : (i \in DOMAIN decayMap) <=> Decaying(attrs[i])

\* item:decay was called on an item that is in progress
C14_Witness ==
    /\ last.op = "decay"
    /\ last.item # NoItem
    /\ last.item \in DOMAIN decayMap
    /\ getDecaying(attrs[last.item]) = DECAYING_TRUE

\* C15: starting the decay of an item twice in a row leaves the expiry and
\* the state the first start gave it, and stopping an item that is stopped
\* changes nothing.
C15_DecayIdempotent ==
    [][\A key \in DecayKeys :
          SetAttributeOf(key) =>
             LET stops == key = "DECAYSTATE" /\ last'.args[1] \in StopValues
             IN  /\ (last'.args[3] = 1 /\ ~stops)
                       => (attrs' = attrs /\ decayMap' = decayMap)
                 /\ (stops /\ last'.args[2] = DECAYING_STOPPED)
                       => (attrs' = attrs /\ decayMap' = decayMap)]_vars

\* the decay of a pending item was started a second time in a row
C15_Witness ==
    /\ last.op = "setAttribute"
    /\ last.kept = {"DECAYSTATE"}
    /\ last.args = <<DECAYING_TRUE, DECAYING_PENDING, 1>>
    /\ last.item \in DOMAIN decayMap

----------------------------------------------------------------------------
(* Tile flags *)

\* C16: every successful typed-attribute mutation through the bindings
\* (setAttribute, setActionId, removeAttribute) has recomputed the tile
\* flags of the item when it returns: the flags are never older than the
\* attributes.
C16_TileFlagsFresh ==
    (last.op \in {"setAttribute", "setActionId", "removeAttribute"}
     /\ last.out = "true" /\ last.res # NoItem)
        => tileFlags[last.item] = attrs[last.item]

----------------------------------------------------------------------------
(* Custom attributes *)

\* a number in halves has a fractional part
HasFraction(halves) == halves % 2 = 1
CustomKinds == {"Int64", "Double", "String", "Bool"}
\* the variant of cv is the only one that holds a value
OneVariant(cv) ==
    /\ cv.kind \in CustomKinds
    /\ cv.kind \in {"String", "Bool"} => cv.n = 0
    /\ cv.kind # "String" => cv.s = ""
    /\ cv.kind # "Bool" => cv.b = FALSE

\* C17: item:setCustomAttribute(key, n) stores Double exactly when the
\* number n has a fractional part and Int64 otherwise, String for a string
\* and Bool for a boolean; item:getCustomAttribute(key) returns the stored
\* variant, so a value read back right after it was set is the value that
\* was set; every key holds exactly one variant.
C17_CustomVariant ==
    /\ [][(last'.op = "setCustomAttribute" /\ last'.out = "true") =>
             LET i == last'.item
                 value == last'.args[2]
                 cv == customAttributes'[i][CustomKey(last'.args[1])]
             IN  /\ isNumber(value) =>
                       cv.kind = IF HasFraction(value.n) THEN "Double" ELSE "Int64"
                 /\ isString(value) => cv.kind = "String"
                 /\ isBoolean(value) => cv.kind = "Bool"]_vars
    /\ [][(last'.op = "getCustomAttribute" /\ last'.res # NoItem
           /\ HasCustomKey(last'.args[1])
           /\ CustomKey(last'.args[1]) \in DOMAIN customAttributes[last'.item]) =>
             LET cv == customAttributes[last'.item][CustomKey(last'.args[1])]
                 ret == last'.args[2]
             IN  /\ ret.t = IF cv.kind \in {"Int64", "Double"} THEN "number"
                            ELSE IF cv.kind = "String" THEN "string"
                            ELSE "boolean"
                 /\ cv.kind = "Double" => ret.n = cv.n
                 /\ cv.kind = "Int64" => ret.n = 2 * cv.n
                 /\ cv.kind = "String" => ret.s = cv.s
                 /\ cv.kind = "Bool" => ret.b = cv.b
                 /\ (last.op = "setCustomAttribute" /\ last.out = "true"
                     /\ last.item = last'.item
                     /\ CustomKey(last.args[1]) = CustomKey(last'.args[1]))
                       => ret = last.args[2]]_vars
    /\ [](\A i \in ItemIds : \A k \in DOMAIN customAttributes[i] :
             OneVariant(customAttributes[i][k]))

\* a negative number with a fractional part was read back as it was stored,
\* under a key another call had given an integer
C17_Witness ==
    /\ last.op = "getCustomAttribute"
    /\ last.res # NoItem
    /\ last.args[2] = LuaNumber(-3)
    /\ "1" \in DOMAIN customAttributes[last.item]
    /\ customAttributes[last.item]["1"].kind = "Double"
    /\ "a" \in DOMAIN customAttributes[last.item]
    /\ customAttributes[last.item]["a"].kind = "Int64"

----------------------------------------------------------------------------
(* Serialization round trip *)

----------------------------------------------------------------------------
(* Forge stack and icon *)

\* C19: monster:setForgeStack(s) gives the monster the icon Influenced with
\* badge s for s in 0..14 and the icon Fiendish with badge 0 for s >= 15.
C19_ForgeIconThreshold ==
    (last.op = "setForgeStack" /\ last.out # "false") =>
        LET s == last.args[1]
        IN  /\ s \in 0 .. 14 =>
                  (monster.icon.kind = "Influenced" /\ monster.icon.badge = s)
            /\ s >= 15 =>
                  (monster.icon.kind = "Fiendish" /\ monster.icon.badge = 0)

\* the stack was set to exactly 15
C19_Witness ==
    /\ last.op = "setForgeStack"
    /\ last.out # "false"
    /\ last.args[1] = 15
    /\ monster.forgeStack = 15
    /\ monster.icon.kind = "Fiendish"

\* C20: every call that changes the forge stack has set the icon derived
\* from the new stack and told the game to re-render the monster before it
\* returns, so the icon of a monster agrees with its stack.
C20_ForgeIconFollowsStack ==
    /\ [][monster'.forgeStack # monster.forgeStack =>
             /\ monster'.icon = ForgeIcon(monster'.forgeStack)
             /\ \E k \in DOMAIN last'.log : last'.log[k] = "updateCreatureIcon"
             /\ \E k \in DOMAIN last'.log : last'.log[k] = "sendUpdateCreature"]_vars
    /\ []((monster.forgeStack # 0 \/ monster.icon # NoIcon) =>
             monster.icon = ForgeIcon(monster.forgeStack))

\* the stack of a fiendish monster was set back below the threshold
C20_Witness ==
    /\ last.op = "setForgeStack"
    /\ last.out # "false"
    /\ monster.classification = FORGE_FIENDISH_MONSTER
    /\ monster.forgeStack = 14
    /\ monster.icon = CreatureIcon("Influenced", 14)

----------------------------------------------------------------------------
(* Hazard modifiers *)

HazardOps == {"hazardCrit", "hazardDodge", "hazardDamageBoost",
              "hazardDefenseBoost"}
HazardFlagOf(op) ==
    IF op = "hazardCrit" THEN "crit"
    ELSE IF op = "hazardDodge" THEN "dodge"
    ELSE IF op = "hazardDamageBoost" THEN "damageBoost"
    ELSE "defenseBoost"

\* C21: for each of the four hazard accessors on a monster: called with a
\* value v it sets its own flag to v and returns v, called without a value
\* it returns the current flag and changes nothing, and in both cases the
\* other three flags keep their values.
C21_HazardAccessors ==
    (last.op \in HazardOps /\ last.kept = {"monster"}) =>
        LET v == last.args[1]
            prior == last.args[2]
            flag == HazardFlagOf(last.op)
        IN  /\ \A f \in HazardFlags \ {flag} : hazard[f] = prior[f]
            /\ IF last.aux = 1
               THEN hazard = prior /\ last.out = pushBoolean(prior[flag])
               ELSE hazard[flag] = v /\ last.out = pushBoolean(v)

\* hazardDodge(true) on a monster whose crit flag is set and whose dodge
\* flag is not
C21_Witness ==
    /\ last.op = "hazardDodge"
    /\ last.kept = {"monster"}
    /\ last.aux = 2
    /\ last.args[1] = TRUE
    /\ last.args[2]["crit"] = TRUE
    /\ last.args[2]["dodge"] = FALSE
    /\ hazard["dodge"] = TRUE
    /\ hazard["crit"] = TRUE
    /\ last.out = "true"

----------------------------------------------------------------------------
(* Friend and target lists *)

AddTargetDone == last.op = "addTarget" /\ last.kept = {"monster"}
\* the creature passed, the flag the script passed (false when it passed
\* none) and the target list before the call
AddTargetC == last.args[1]
AddTargetFront == last.aux >= 3 /\ last.args[2]
AddTargetPrior == last.args[3]
Occurrences(tl, creature) ==
    Cardinality({k \in 1 .. Len(tl) : tl[k] = creature})

\* C22: addTarget(C, pushFront = true) of a new target C puts C in front of
\* the list ([A,B] becomes [C,A,B]) and addTarget(C, pushFront = false) puts
\* it at the back; adding a C that is in the list already never gives it a
\* second entry and, with pushFront = false, leaves the other entries in
\* their order; getTargetList returns the entries in list order, the
\* primary target at index 1.
C22_TargetOrder ==
    /\ (AddTargetDone /\ AddTargetC \in CreatureIds \ {Self}) =>
          /\ Occurrences(AddTargetPrior, AddTargetC) = 0 =>
                targetList = IF AddTargetFront
                             THEN <<AddTargetC>> \o AddTargetPrior
                             ELSE Append(AddTargetPrior, AddTargetC)
          /\ Occurrences(AddTargetPrior, AddTargetC) > 0 =>
                /\ Occurrences(targetList, AddTargetC) = 1
                /\ ~AddTargetFront =>
                      eraseTarget(targetList, AddTargetC)
                         = eraseTarget(AddTargetPrior, AddTargetC)
    /\ (last.op = "getTargetList" /\ last.kept = {"monster"}) =>
          /\ last.out = "table"
          /\ DOMAIN last.log = 1 .. Len(targetList)
          /\ \A k \in 1 .. Len(targetList) : last.log[k] = targetList[k]

\* addTarget(4, true) on the target list [2, 3]
C22_Witness ==
    /\ AddTargetDone
    /\ AddTargetC = 4
    /\ AddTargetFront
    /\ AddTargetPrior = <<2, 3>>
    /\ targetList = <<4, 2, 3>>

----------------------------------------------------------------------------
(* Target-distance override and setType *)

\* the target distance is the default of the monster's current type
DefaultDistance ==
    /\ monsterInfo.mType # "null"
    /\ monsterInfo.targetDistance = TypeInfo(monsterInfo.mType).targetDistance

\* C24: a target-distance override started by changeTargetDistance ends:
\* once its duration has elapsed the target distance is the default of the
\* monster's current type again, with no further script call and also when
\* setType is called while the override lasts.
C24_OverrideReverts ==
    (distanceUntil # << >>) ~> (distanceUntil = << >> /\ DefaultDistance)

\* C26: setType is all-or-nothing.  With an argument that names no monster
\* type the call is rejected and the monster (type, registered events,
\* outfit, skull, health, speed, target distance) is as before; with an
\* argument that names a type the monster has that type, the script events
\* of its old type are unregistered and those of the new type registered.
C26_SetTypeAllOrNothing ==
    (last.op = "setType" /\ last.kept = {"monster"}) =>
        LET prior == last.args[3]
            mType == last.target
        IN  IF mType = "null"
            THEN /\ monsterInfo = prior
                 /\ ~faulted
                 /\ last.out \in {"nil", "false"}
            ELSE /\ ~faulted
                 /\ monsterInfo.mType = mType
                 /\ monsterInfo.events =
                       (prior.events \ TypeInfo(prior.mType).scripts)
                          \cup TypeInfo(mType).scripts

----------------------------------------------------------------------------
(* Not-found answers of the item bindings *)

\* the item operations whose answer on an unresolved first argument is
\* compared
NotFoundOps == {"hasOwner", "getOwnerId", "isOwner", "setOwner",
                "getImbuement", "split", "transform", "moveTo"}

\* C25: an item operation whose first argument resolves to no live item
\* answers nil, false or no value, never a truthy value and never the
\* caller's own argument
C25_NotFoundUniform ==
    (last.op \in NotFoundOps /\ last.item = NoItem)
        => last.out \in {"nil", "false", ReturnsNothing}

----------------------------------------------------------------------------
(* Stack conservation of item:split *)

\* the count a split call takes: the smaller of the requested count and
\* the count of the stack before the call
SplitTaken == Min(last'.args[1], last'.args[2])

\* C27: item:split(count) on a stack of N gives the split-off item
\* k = min(count, N) and leaves the original N - k (removing it when
\* nothing is left), with 0 <= N - k <= N; a call that answers nil
\* allocates no handle, registers no temporary item and changes no count
C27_SplitConserves ==
    [][last'.op = "split" =>
          IF last'.out = "userdata"
          THEN LET i == last'.item
                   s == last'.aux
                   N == last'.args[2]
                   k == SplitTaken
               IN  /\ N = items[i].count
                   /\ items'[s].count = k
                   /\ k <= N /\ N - k >= 0 /\ k + (N - k) = N
                   /\ IF k = N
                      THEN isRemoved(items', i) /\ last'.res = NoItem
                      ELSE /\ last'.res = i
                           /\ items'[i].count = N - k
                           /\ ~isRemoved(items', i)
                   /\ items'[s].count + (IF k = N THEN 0 ELSE items'[i].count) = N
          ELSE /\ last'.out = "nil"
               /\ UNCHANGED <<items, nItems, scriptEnv, lastUID, ud, attrs>>]_vars

\* a request larger than the stack took the whole stack and removed the
\* original
C27_Witness ==
    /\ last.op = "split" /\ last.out = "userdata"
    /\ last.args[1] = 65535
    /\ items[last.aux].count = last.args[2]
    /\ last.args[2] > 0
    /\ isRemoved(items, last.item)

----------------------------------------------------------------------------
(* The shared item-type template *)

\* Item::items.getItemType(item->getID()): the template of item j
getItemType(its, types, j) == types[its[j].id]

\* C28: item:decay(decayId) writes the decay-to id, and item:setDuration
\* the decay-to id, the decay time and the show-duration flag, to the
\* template of the target's item id, which every item of that id reads;
\* the templates of the other ids are unchanged; the decay time is the
\* minimum when no maximum is given and lies within [min, max] otherwise
C28_SharedTemplate ==
    [][(last'.op \in {"decay", "setDuration"} /\ last'.out = "true") =>
          LET i == last'.item
              id == items[i].id
              a == last'.args
              top == last'.aux
              it == itemTypes'[id]
          IN  /\ \A other \in ItemTypeIds \ {id} :
                    itemTypes'[other] = itemTypes[other]
              /\ \A j \in 1 .. nItems :
                    items'[j].id = id =>
                       getItemType(items', itemTypes', j) = it
              /\ last'.op = "decay" =>
                    it = IF top = 2
                         THEN [itemTypes[id] EXCEPT !.decayTo = a[1]]
                         ELSE itemTypes[id]
              /\ last'.op = "setDuration" =>
                    /\ it.decayTo = (IF top > 3 THEN a[3] ELSE 0)
                    /\ it.showDuration = (IF top > 4 THEN a[4] ELSE TRUE)
                    /\ top <= 2 => it.decayTime = a[1]
                    /\ (top > 2 /\ a[1] <= a[2]) => it.decayTime \in a[1] .. a[2]]_vars

\* setDuration on one item of id 1 gave the other item of id 1 a drawn
\* decay time, a decay-to id and a hidden duration, with the template of
\* id 2 holding other values
C28_Witness ==
    /\ last.op = "setDuration" /\ last.out = "true" /\ last.item = 1
    /\ last.aux = 5 /\ last.args[1] = 1 /\ last.args[2] = 3
    /\ getItemType(items, itemTypes, 2) =
          [decayTo |-> 2, decayTime |-> 2, showDuration |-> FALSE]
    /\ getItemType(items, itemTypes, 3) # getItemType(items, itemTypes, 2)
    /\ getItemType(items, itemTypes, 3) # NoDecay

----------------------------------------------------------------------------
(* Spawn interval of monster:setSpawnPosition *)

\* (seconds * 100000) mod 2^32 as two 16-bit halves, for seconds below
\* 62000: 100000 = 65536 + 34464
SpawnProduct(seconds) ==
    LET low == seconds * 34464
    IN  [hi |-> (seconds + low \div 65536) % 65536, lo |-> low % 65536]

\* q = x div d for 32-bit x and q: q * d does not pass 2^32 and
\* q * d <= x < q * d + d
IsQuotient(q, x, d) ==
    /\ d >= 1
    /\ q.hi * d + (q.lo * d) \div 65536 < 65536
    /\ \E r \in 0 .. (d - 1) :
          LET p == MulUint32(q, d)
              low == p.lo + r
          IN  /\ p.hi + low \div 65536 < 65536
              /\ x = [hi |-> p.hi + low \div 65536, lo |-> low % 65536]

\* C29: setSpawnPosition answers for every seconds, rate and schedule;
\* the spawn interval is ((seconds * 100000) mod 2^32) div
\* max(1, RATE_SPAWN * eventSchedule); the master position becomes the
\* monster's position and exactly one spawn record of the monster's type
\* at that position is appended to the records of earlier calls
C29_SpawnInterval ==
    (last.op = "setSpawnPosition" /\ last.kept = {"monster"}) =>
        LET seconds == last.args[1]
            product == last.args[2] * last.args[3]
            divisor == IF product < 1 THEN 1 ELSE product
            before == last.args[4]
            rec == spawnsMonster[Len(spawnsMonster)]
        IN  /\ last.out = "true"
            /\ masterPos = position
            /\ Len(spawnsMonster) = Len(before) + 1
            /\ SubSeq(spawnsMonster, 1, Len(before)) = before
            /\ rec.pos = position
            /\ rec.name = monsterInfo.mType
            /\ IsQuotient(rec.interval, SpawnProduct(seconds), divisor)

\* the product passed 2^32 (42950 * 100000 = 2^32 + 32704) and the
\* divisor was 200; an earlier record is still there
C29_Witness ==
    /\ last.op = "setSpawnPosition" /\ last.kept = {"monster"}
    /\ last.args[1] = 42950 /\ last.args[2] = 2 /\ last.args[3] = 100
    /\ Len(spawnsMonster) = 2
    /\ spawnsMonster[2].interval = [hi |-> 0, lo |-> 163]
    /\ spawnsMonster[1].pos # spawnsMonster[2].pos

----------------------------------------------------------------------------
(* Variant dispatch of the creature callback *)

\* C30: for a creature, pushSpecificCreature pushes the userdata of the
\* creature's variant with the class getCreatureClass answers as its
\* metatable, and counts one parameter; for a creature of no variant it
\* pushes and counts nothing; getCreatureClass answers the variant's name,
\* and the empty string for a creature of no variant and for null
C30_DispatchConsistent ==
    /\ (last.op = "pushSpecificCreature" /\ last.target # "expired") =>
          LET creature == last.target
              stack == last.args[1]
              count == last.args[2]
          IN  IF creature \in CreatureVariants
              THEN /\ pushed = Append(stack, Userdata(creature, creature))
                   /\ pushed[Len(pushed)].metatable = getCreatureClass(creature)
                   /\ params = count + 1
              ELSE /\ pushed = stack
                   /\ params = count
                   /\ getCreatureClass(creature) = ""
    /\ last.op = "getCreatureClass" =>
          last.log = <<IF last.target \in CreatureVariants
                       THEN last.target ELSE "">>

\* a player was pushed as the second parameter, after an npc
C30_Witness ==
    /\ last.op = "pushSpecificCreature" /\ last.target = "Player"
    /\ params = 2 /\ Len(pushed) = 2
    /\ pushed[2] = Userdata("Player", "Player")
    /\ pushed[1].variant = "Npc"

====
